---- MODULE Spec2Model ----
(***************************************************************************)
(* phoneint: consent-gated owner intelligence, the adapter orchestrator,   *)
(* the SQLite TTL cache with its cache-aside adapter wrapper and the       *)
(* per-host rate limiter, as state machines translated from the Python     *)
(* sources.  Each subsystem has its own specification over the shared      *)
(* variable list; the variables of the other subsystems stay at their      *)
(* idle values.                                                            *)
(***************************************************************************)
EXTENDS Integers, Sequences, FiniteSets, TLC

VARIABLES
    \* ---- OwnerIntelEngine.build (owner/signals.py)
    adapters,       \* self._adapters: sequence of [name, pii_capable]
    allow_pii,      \* build(allow_pii=...)
    legal_basis,    \* build(legal_basis=...): "None" or a LegalBasis
    voip_flag,      \* build(voip_flag=...)
    evidence,       \* build(evidence=...): sequence of SearchResult
    build_pc,       \* "loop" | "awaiting" | "returned" | "raised" | "cancelled"
    build_i,        \* position of the for loop over self._adapters
    associations,   \* local list associations
    audit,          \* local list audit
    pii,            \* local pii: "None" or an OwnerPII
    invoked,        \* history: indices of adapters whose lookup_owner was awaited
    outcomes,       \* history: outcome of each awaited lookup_owner, by position in invoked
    build_out       \* what the caller of build receives

ownerVars == << adapters, allow_pii, legal_basis, voip_flag, evidence, build_pc,
                build_i, associations, audit, pii, invoked, outcomes, build_out >>

\* ---- _run_adapters (cli.py)
VARIABLES
    run_adapters,   \* adapters: sequence of adapter names (ad.name)
    tasks,          \* tasks: per adapter [state, results, exc]
    run_pc,         \* "idle" | "awaiting" | "returned" | "cancelled"
    run_j,          \* position of the `for name, task in zip(names, tasks)` loop
    all_results,    \* local list all_results
    errors,         \* local dict errors: name -> message
    run_out         \* what the caller of _run_adapters receives

runVars == << run_adapters, tasks, run_pc, run_j, all_results, errors, run_out >>

\* ---- SQLiteTTLCache and CachedReputationAdapter (cache.py)
VARIABLES
    wall_clock,     \* time.time(), in ticks of 1/TicksPerSecond second
    store,          \* table cache: key -> row [value_json, expires_at], or NoRow
    last_op,        \* history: the last call of get/set/delete_expired and its result
    last_set,       \* history: per key, the last set that wrote a row
    cache_ttl,      \* CachedReputationAdapter._ttl
    chk,            \* per caller of CachedReputationAdapter.check: its position and locals
    wrapped_calls   \* history: number of calls of the wrapped adapter's check

cacheVars == << wall_clock, store, last_op, last_set, cache_ttl, chk, wrapped_calls >>

\* ---- PerHostRateLimiter (net/http.py)
VARIABLES
    mono_clock,     \* time.monotonic(), in ticks
    min_interval,   \* self._min_interval, in ticks
    lock_holder,    \* self._locks: per host the caller holding the lock, 0 when free
    lock_queue,     \* self._locks: per host the callers waiting for the lock, in order
    next_allowed,   \* self._next_allowed: per host, -1 when the host has no entry
    lim             \* per caller of wait: its position, host and locals

limVars == << mono_clock, min_interval, lock_holder, lock_queue, next_allowed, lim >>

\* ---- request_with_retries (net/http.py)
VARIABLES
    req_cfg,        \* arguments: config.max_retries, backoff base and cap, url, rate_limiter
    req_pc,         \* "idle" | "waiting" | "requesting" | "draining" | "sleeping" |
                    \* "returned" | "raised" | "cancelled"
    attempt,        \* loop variable attempt
    resp,           \* local resp: [status, retry_after], NoResp before the first response
    last_exc,       \* local last_exc
    sleep_for,      \* argument of the pending asyncio.sleep, in hundredths of a second
    req_out,        \* what the caller of request_with_retries receives
    req_hist        \* history: counts of requests, limiter waits and sleeps, and flags

retryVars == << req_cfg, req_pc, attempt, resp, last_exc, sleep_for, req_out, req_hist >>

\* ---- TruecallerAdapter.lookup_owner called directly (owner/truecaller_adapter.py)
VARIABLES
    tc_in,          \* the adapter's fields and the arguments of the call
    tc_out          \* what the caller receives, NoTcOut before the call

tcVars == << tc_in, tc_out >>

\* ---- one call of a function without side effects (score_risk, classify, ...)
VARIABLES
    call_args,      \* the arguments of the call
    call_result     \* what the call returned, NoResult before the call

callVars == << call_args, call_result >>

vars == << ownerVars, runVars, cacheVars, limVars, retryVars, tcVars, callVars >>

(***************************************************************************)
(* Bounds of the model.                                                    *)
(***************************************************************************)
MaxAdapters == 2
MaxEvidence == 1
MaxRunAdapters == 3
MaxTicks == 5
MaxTTL == 2
MaxChecks == 2
MaxMono == 5
MaxInterval == 2
MaxWaiters == 3
MaxRetries == 2
MaxAssociations == 2
MaxSignalCount == 4

RECURSIVE SeqsUpTo(_, _)
SeqsUpTo(S, n) ==
    IF n = 0 THEN { << >> }
    ELSE LET shorter == SeqsUpTo(S, n - 1)
         IN  shorter \cup { Append(s, x) : s \in { t \in shorter : Len(t) = n - 1 }, x \in S }

(***************************************************************************)
(* owner/interface.py, owner/classify.py, owner/signals.py                 *)
(***************************************************************************)
NoPII == [name |-> "None", source |-> "None", owner_category |-> "None"]

OwnerCategories == { "individual", "landline" }

\* The adapters an engine can be configured with: the Truecaller stub and the
\* test suite's stub are PII-capable, an association-only adapter is not.
OwnerAdapterKinds ==
    { [name |-> "truecaller", pii_capable |-> TRUE],
      [name |-> "stub_pii", pii_capable |-> TRUE],
      [name |-> "directory", pii_capable |-> FALSE] }

\* legal_basis: None, or a LegalBasis dict (total=False) whose consent_obtained
\* key is True, False or missing.
LegalBases == { "None", "consent_True", "consent_False", "consent_missing" }

LegalBasisGet(lb) ==
    CASE lb = "consent_True" -> "True"
      [] lb = "consent_False" -> "False"
      [] OTHER -> "None"

\* Snippet texts, by what _EMAIL_RE (signals.py:41) makes of them: a text with
\* no address; a text with an ASCII address, which the pattern matches; a text
\* with an address whose local part begins with a non-ASCII letter, where the
\* pattern finds no match (its character classes are ASCII and its leading \b
\* finds no word boundary after that letter); the text after redaction.
PlainText == "call now"
AsciiAddressText == "write to bob@example.com"
NonAsciiAddressText == "write to <non-ASCII letter>ozef@example.com"
RedactedText == "write to [REDACTED_EMAIL]"

ContainsEmail(text) == text \in { AsciiAddressText, NonAsciiAddressText }

\* SearchResult as evidence: source, url, snippet and timestamp.
EvidenceItems ==
    { [source |-> "public_scam_db", url |-> "scamdb://sample", snippet |-> PlainText, timestamp |-> 1],
      [source |-> "duckduckgo", url |-> "https://www.yelp.com/biz/x",
        snippet |-> AsciiAddressText, timestamp |-> 1],
      [source |-> "duckduckgo", url |-> "https://sfbay.craigslist.org/x",
        snippet |-> PlainText, timestamp |-> 1],
      [source |-> "google", url |-> "https://example.org/x",
        snippet |-> NonAsciiAddressText, timestamp |-> 1] }

\* score.py:135-149, and the same two tables at owner/signals.py:25-39
CLASSIFIEDS_MARKERS ==
    { "craigslist.", "gumtree.", "olx.", "kijiji.", "marktplaats.", "facebook.com/marketplace" }

BUSINESS_MARKERS ==
    { "yelp.", "yellowpages.", "bbb.org", "google.com/maps", "linkedin.com/company" }

\* URLs of evidence: of a classifieds site, of a business directory, of both,
\* of neither, the pseudo-URLs of the dataset, and spellings in capitals.
UrlTexts ==
    { "", "https://example.org/x", "https://sfbay.craigslist.org/x",
      "HTTPS://SFBAY.CRAIGSLIST.ORG/X", "https://www.yelp.com/biz/x",
      "https://WWW.YELP.COM/biz/x", "https://www.facebook.com/marketplace/item/1",
      "https://www.facebook.com/profile", "https://yelp.craigslist.org/x",
      "scamdb://sample", "SCAMDB://sample", "scamdb://yelp.example" }

\* A comparison that takes the text as it is spelled.
lower_AsSpelled(text) == text

\* str.lower()
lower(text) ==
    CASE text = "HTTPS://SFBAY.CRAIGSLIST.ORG/X" -> "https://sfbay.craigslist.org/x"
      [] text = "https://WWW.YELP.COM/biz/x" -> "https://www.yelp.com/biz/x"
      [] text = "SCAMDB://sample" -> "scamdb://sample"
      [] OTHER -> text

\* The markers that occur in a text as it is spelled (m in url).
MarkersIn(text) ==
    CASE text = "https://sfbay.craigslist.org/x" -> { "craigslist." }
      [] text = "https://www.yelp.com/biz/x" -> { "yelp." }
      [] text = "https://www.facebook.com/marketplace/item/1" -> { "facebook.com/marketplace" }
      [] text = "https://yelp.craigslist.org/x" -> { "yelp.", "craigslist." }
      [] text = "scamdb://yelp.example" -> { "yelp." }
      [] OTHER -> {}

\* url.startswith("scamdb://")
StartsWithScamdb(text) ==
    text \in { "scamdb://sample", "scamdb://yelp.example", "scamdb://ftc", "scamdb://unknown" }

\* any(m in url for m in markers)
any_marker_in(url, markers) == MarkersIn(url) \cap markers # {}

\* A labelling that looks for classifieds before businesses.
label_from_search_result_ClassifiedsFirst(r) ==
    IF r.source = "public_scam_db" \/ StartsWithScamdb(lower(r.url)) THEN "scam_report"
    ELSE IF any_marker_in(lower(r.url), CLASSIFIEDS_MARKERS) THEN "classified_ad"
    ELSE IF any_marker_in(lower(r.url), BUSINESS_MARKERS) THEN "business_listing"
    ELSE "mention"

\* signals.py:44-52
label_from_search_result(r) ==
    IF r.source = "public_scam_db" \/ StartsWithScamdb(lower(r.url)) THEN "scam_report"
    ELSE IF any_marker_in(lower(r.url), BUSINESS_MARKERS) THEN "business_listing"
    ELSE IF any_marker_in(lower(r.url), CLASSIFIEDS_MARKERS) THEN "classified_ad"
    ELSE "mention"

\* signals.py:55-56: _EMAIL_RE.sub("[REDACTED_EMAIL]", text) replaces every
\* match of the pattern and leaves the rest of the text as it is.
sanitize_snippet(text) == IF text = AsciiAddressText THEN RedactedText ELSE text

associations_from_evidence(ev) ==
    [ k \in 1..Len(ev) |->
        [source |-> ev[k].source, url |-> ev[k].url,
         label |-> label_from_search_result(ev[k]),
         snippet |-> sanitize_snippet(ev[k].snippet), timestamp |-> ev[k].timestamp] ]

Labels(assocs) == { assocs[k].label : k \in 1..Len(assocs) }

\* A classification that looks at the evidence before the voip flag.
classify_EvidenceFirst(assocs, voip, p) ==
    IF p # NoPII THEN p.owner_category
    ELSE IF "business_listing" \in Labels(assocs) THEN "business"
    ELSE IF "classified_ad" \in Labels(assocs) THEN "individual"
    ELSE IF voip THEN "voip"
    ELSE "unknown"

\* classify.py:12-31
classify(assocs, voip, p) ==
    IF p # NoPII THEN p.owner_category
    ELSE IF voip THEN "voip"
    ELSE IF "business_listing" \in Labels(assocs) THEN "business"
    ELSE IF "classified_ad" \in Labels(assocs) THEN "individual"
    ELSE "unknown"

\* What one awaited lookup_owner can do.
LookupOutcomes ==
    { [kind |-> "result", pii |-> NoPII] }
    \cup { [kind |-> "result",
            pii |-> [name |-> "Jane Doe", source |-> "adapter", owner_category |-> c]] :
           c \in OwnerCategories }
    \cup { [kind |-> "PermissionError", pii |-> NoPII],
           [kind |-> "Exception", pii |-> NoPII] }

\* res.associations of a successful lookup: an identity association with the
\* adapter's own, unredacted snippet when PII is returned.
ResultAssociations(a, o) ==
    IF o.pii # NoPII
    THEN << [source |-> a.name, url |-> "", label |-> "identity_confirmed",
            snippet |-> AsciiAddressText, timestamp |-> 1] >>
    ELSE << >>

NoOut == [kind |-> "none", pii_allowed |-> FALSE, pii |-> NoPII,
          ownership_type |-> "none", associations |-> << >>, audit |-> << >>]

\* signals.py:279-284: the adapter is passed over by `continue`.
SkipsAdapter_NoConsentCheck(a, allow, lb) == a.pii_capable /\ ~allow

SkipsAdapter(a, allow, lb) ==
    \/ a.pii_capable /\ ~allow
    \/ a.pii_capable /\ (lb = "None" \/ LegalBasisGet(lb) # "True")

\* signals.py:293, 304, 316: whether the invocation is written to the audit list.
Audited(a, lb) == a.pii_capable /\ lb # "None"

AuditRecord(a, result) == [adapter |-> a.name, result |-> result]

\* signals.py:327-329
PiiAllowed_NoConsent(allow, lb, p) == allow /\ p # NoPII

PiiAllowed(allow, lb, p) ==
    allow /\ lb # "None" /\ LegalBasisGet(lb) = "True" /\ p # NoPII

OwnerIdle ==
    /\ adapters = << >>
    /\ allow_pii = FALSE
    /\ legal_basis = "None"
    /\ voip_flag = FALSE
    /\ evidence = << >>
    /\ build_pc = "idle"
    /\ build_i = 1
    /\ associations = << >>
    /\ audit = << >>
    /\ pii = NoPII
    /\ invoked = << >>
    /\ outcomes = << >>
    /\ build_out = NoOut

\* The engine is constructed with some adapters and build is entered:
\* signals.py:273-276.
OwnerInit ==
    /\ adapters \in SeqsUpTo(OwnerAdapterKinds, MaxAdapters)
    /\ allow_pii \in BOOLEAN
    /\ legal_basis \in LegalBases
    /\ voip_flag \in BOOLEAN
    /\ evidence \in SeqsUpTo(EvidenceItems, MaxEvidence)
    /\ build_pc = "loop"
    /\ build_i = 1
    /\ associations = associations_from_evidence(evidence)
    /\ audit = << >>
    /\ pii = NoPII
    /\ invoked = << >>
    /\ outcomes = << >>
    /\ build_out = NoOut

BuildInputsUnchanged ==
    UNCHANGED << adapters, allow_pii, legal_basis, voip_flag, evidence, runVars, cacheVars,
                 limVars, retryVars, tcVars, callVars >>

\* signals.py:278-284: `continue`
BuildSkip ==
    /\ build_pc = "loop"
    /\ build_i <= Len(adapters)
    /\ SkipsAdapter(adapters[build_i], allow_pii, legal_basis)
    /\ build_i' = build_i + 1
    /\ UNCHANGED << build_pc, associations, audit, pii, invoked, outcomes, build_out >>
    /\ BuildInputsUnchanged

\* signals.py:286-289: `await adapter.lookup_owner(...)`
BuildCall ==
    /\ build_pc = "loop"
    /\ build_i <= Len(adapters)
    /\ ~SkipsAdapter(adapters[build_i], allow_pii, legal_basis)
    /\ build_pc' = "awaiting"
    /\ invoked' = Append(invoked, build_i)
    /\ UNCHANGED << build_i, associations, audit, pii, outcomes, build_out >>
    /\ BuildInputsUnchanged

\* signals.py:290-302: lookup_owner returned res
BuildLookupReturns ==
    /\ build_pc = "awaiting"
    /\ \E o \in { x \in LookupOutcomes : x.kind = "result" } :
         LET a == adapters[build_i] IN
         /\ associations' = associations \o ResultAssociations(a, o)
         /\ pii' = IF pii = NoPII /\ o.pii # NoPII THEN o.pii ELSE pii
         /\ audit' = IF Audited(a, legal_basis)
                     THEN Append(audit, AuditRecord(a, IF o.pii # NoPII THEN "pii_returned"
                                                       ELSE "none"))
                     ELSE audit
         /\ outcomes' = Append(outcomes, IF o.pii # NoPII THEN "pii_returned" ELSE "none")
    /\ build_i' = build_i + 1
    /\ build_pc' = "loop"
    /\ UNCHANGED << invoked, build_out >>
    /\ BuildInputsUnchanged

\* What build hands to its caller when it leaves by an exception: the exception
\* alone, the local audit list is dropped with the frame.
RaisedOut(exc) == [NoOut EXCEPT !.kind = exc]

\* signals.py:303-314: lookup_owner raised PermissionError; the record is
\* appended to the local list and the exception is re-raised out of build.
BuildLookupPermissionError ==
    /\ build_pc = "awaiting"
    /\ LET a == adapters[build_i] IN
         audit' = IF Audited(a, legal_basis) THEN Append(audit, AuditRecord(a, "error"))
                  ELSE audit
    /\ outcomes' = Append(outcomes, "denied")
    /\ build_pc' = "raised"
    /\ build_out' = RaisedOut("PermissionError")
    /\ UNCHANGED << build_i, associations, pii, invoked >>
    /\ BuildInputsUnchanged

\* signals.py:315-325: lookup_owner raised another Exception; the loop goes on.
BuildLookupException ==
    /\ build_pc = "awaiting"
    /\ LET a == adapters[build_i] IN
         audit' = IF Audited(a, legal_basis) THEN Append(audit, AuditRecord(a, "error"))
                  ELSE audit
    /\ outcomes' = Append(outcomes, "failed")
    /\ build_i' = build_i + 1
    /\ build_pc' = "loop"
    /\ UNCHANGED << associations, pii, invoked, build_out >>
    /\ BuildInputsUnchanged

\* A build whose `except Exception` also catches the cancellation: the
\* invocation is audited as an error and the loop goes on.
BuildCancelled_Swallowed ==
    /\ build_pc = "awaiting"
    /\ LET a == adapters[build_i] IN
         audit' = IF Audited(a, legal_basis) THEN Append(audit, AuditRecord(a, "error"))
                  ELSE audit
    /\ outcomes' = Append(outcomes, "cancelled")
    /\ build_i' = build_i + 1
    /\ build_pc' = "loop"
    /\ UNCHANGED << associations, pii, invoked, build_out >>
    /\ BuildInputsUnchanged

\* The task running build is cancelled while lookup_owner is awaited:
\* CancelledError is a BaseException, no except clause of signals.py:303-325
\* catches it.
BuildCancelled ==
    /\ build_pc = "awaiting"
    /\ outcomes' = Append(outcomes, "cancelled")
    /\ build_pc' = "cancelled"
    /\ build_out' = RaisedOut("CancelledError")
    /\ UNCHANGED << build_i, associations, audit, pii, invoked >>
    /\ BuildInputsUnchanged

\* signals.py:327-360
BuildReturn ==
    /\ build_pc = "loop"
    /\ build_i > Len(adapters)
    /\ LET pii_allowed == PiiAllowed(allow_pii, legal_basis, pii)
           ownership_type == classify(associations, voip_flag,
                                      IF pii_allowed THEN pii ELSE NoPII)
       IN  build_out' = [kind |-> "return",
                         pii_allowed |-> pii_allowed,
                         pii |-> IF pii_allowed /\ pii # NoPII THEN pii ELSE NoPII,
                         ownership_type |-> ownership_type,
                         associations |-> associations,
                         audit |-> audit]
    /\ build_pc' = "returned"
    /\ UNCHANGED << build_i, associations, audit, pii, invoked, outcomes >>
    /\ BuildInputsUnchanged

OwnerNext ==
    \/ BuildSkip
    \/ BuildCall
    \/ BuildLookupReturns
    \/ BuildLookupPermissionError
    \/ BuildLookupException
    \/ BuildCancelled
    \/ BuildReturn

(***************************************************************************)
(* cli.py: _run_adapters                                                   *)
(***************************************************************************)
RunAdapterNames == { "duckduckgo", "public_scam_db" }

\* What ad.check(e164, limit=5) can return: a list of SearchResult of that source.
CheckResults(name) ==
    { << >>,
      << [source |-> name, title |-> "t1"] >>,
      << [source |-> name, title |-> "t1"], [source |-> name, title |-> "t2"] >> }

\* Exceptions a check can raise (CancelledError apart).
CheckExceptions == { "TransportError", "HTTPStatusError" }

NoErrors == [ n \in {} |-> "" ]

NoRunOut == [kind |-> "none", evidence |-> << >>, errors |-> NoErrors]

RunIdle ==
    /\ run_adapters = << >>
    /\ tasks = << >>
    /\ run_pc = "idle"
    /\ run_j = 1
    /\ all_results = << >>
    /\ errors = NoErrors
    /\ run_out = NoRunOut

\* cli.py:51-58: one task per adapter is created, all of them start running.
RunInit ==
    /\ run_adapters \in SeqsUpTo(RunAdapterNames, MaxRunAdapters)
    /\ tasks = [ k \in 1..Len(run_adapters) |->
                    [state |-> "running", results |-> << >>, exc |-> "", order |-> 0] ]
    /\ run_pc = "awaiting"
    /\ run_j = 1
    /\ all_results = << >>
    /\ errors = NoErrors
    /\ run_out = NoRunOut

RunFrame ==
    UNCHANGED << run_adapters, ownerVars, cacheVars, limVars, retryVars, tcVars, callVars >>

\* The place of a task that completes now among the completions of the run.
NextOrder == Cardinality({ k \in 1..Len(tasks) : tasks[k].state # "running" }) + 1

\* An adapter's check returns its results: the task is done.
TaskSucceeds(k) ==
    /\ tasks[k].state = "running"
    /\ \E r \in CheckResults(run_adapters[k]) :
         tasks' = [tasks EXCEPT ![k] = [state |-> "done", results |-> r, exc |-> "",
                                          order |-> NextOrder]]
    /\ UNCHANGED << run_pc, run_j, all_results, errors, run_out >>
    /\ RunFrame

\* An adapter's check raises: the task holds the exception.
TaskFails(k) ==
    /\ tasks[k].state = "running"
    /\ \E e \in CheckExceptions :
         tasks' = [tasks EXCEPT ![k] = [state |-> "failed", results |-> << >>, exc |-> e,
                                          order |-> NextOrder]]
    /\ UNCHANGED << run_pc, run_j, all_results, errors, run_out >>
    /\ RunFrame

\* cli.py:66-67: errors[name] = f"{type(exc).__name__}: {exc}"
RecordError_Dropped(errs, name, exc) == errs

RecordError(errs, name, exc) ==
    [ n \in DOMAIN errs \cup {name} |-> IF n = name THEN exc \o ": failed" ELSE errs[n] ]

\* Results put in front of those collected so far.
extend_InFront(collected, results) == results \o collected

\* cli.py:63: all_results.extend(results)
extend(collected, results) == collected \o results

\* cli.py:61-63: `results = await task` of a task that is done
RunCollectResults ==
    /\ run_pc = "awaiting"
    /\ run_j <= Len(run_adapters)
    /\ tasks[run_j].state = "done"
    /\ all_results' = extend(all_results, tasks[run_j].results)
    /\ run_j' = run_j + 1
    /\ UNCHANGED << tasks, run_pc, errors, run_out >>
    /\ RunFrame

\* cli.py:66-67: `await task` of a task that failed
RunCollectError ==
    /\ run_pc = "awaiting"
    /\ run_j <= Len(run_adapters)
    /\ tasks[run_j].state = "failed"
    /\ errors' = RecordError(errors, run_adapters[run_j], tasks[run_j].exc)
    /\ run_j' = run_j + 1
    /\ UNCHANGED << tasks, run_pc, all_results, run_out >>
    /\ RunFrame

\* cli.py:69
RunReturn ==
    /\ run_pc = "awaiting"
    /\ run_j > Len(run_adapters)
    /\ run_pc' = "returned"
    /\ run_out' = [kind |-> "return", evidence |-> all_results, errors |-> errors]
    /\ UNCHANGED << tasks, run_j, all_results, errors >>
    /\ RunFrame

\* The task running _run_adapters is cancelled while it is suspended in
\* `await task` (cli.py:62): asyncio cancels the awaited task, CancelledError
\* is raised at the await and re-raised by cli.py:64-65.  The tasks created at
\* cli.py:55 that are not the awaited one are left as they are.
RunCancelled ==
    /\ run_pc = "awaiting"
    /\ run_j <= Len(run_adapters)
    /\ tasks' = [tasks EXCEPT ![run_j] =
                    IF @.state = "running"
                    THEN [state |-> "cancelled", results |-> << >>, exc |-> "CancelledError",
                          order |-> NextOrder]
                    ELSE @]
    /\ run_pc' = "cancelled"
    /\ run_out' = [NoRunOut EXCEPT !.kind = "CancelledError"]
    /\ UNCHANGED << run_j, all_results, errors >>
    /\ RunFrame

RunNext ==
    \/ \E k \in 1..Len(run_adapters) : TaskSucceeds(k)
    \/ \E k \in 1..Len(run_adapters) : TaskFails(k)
    \/ RunCollectResults
    \/ RunCollectError
    \/ RunReturn
    \/ RunCancelled

(***************************************************************************)
(* cache.py: SQLiteTTLCache                                                *)
(***************************************************************************)
\* The wall clock is read in ticks; int(time.time()) drops the fraction.
TicksPerSecond == 2

int_time(ticks) == ticks \div TicksPerSecond

\* JSON documents: a list of items, an object or null.  An item of a list is
\* an object with the fields of SearchResult.to_dict(), or something else.
\* A timestamp text either is an ISO-8601 instant or is not.
IsoText(instant) == [iso |-> TRUE, instant |-> instant]
GarbageText == [iso |-> FALSE, instant |-> 0]

NullDoc == [t |-> "null", items |-> << >>]
DictDoc == [t |-> "dict", items |-> << >>]
ListDoc(items) == [t |-> "list", items |-> items]

NumberItem ==
    [t |-> "number", title |-> "", url |-> "", snippet |-> "", timestamp |-> GarbageText,
     source |-> ""]

\* json.dumps(value): the text of the document; json.loads(text) gives the
\* document back, or raises JSONDecodeError on a text that is no JSON.
json_dumps(doc) == [valid |-> TRUE, doc |-> doc]
NotJsonText == [valid |-> FALSE, doc |-> NullDoc]
json_loads_raises(text) == ~text.valid
json_loads(text) == text.doc

NoRow == [value_json |-> NotJsonText, expires_at |-> -1]

\* make_cache_key(namespace, *parts): the SHA-256 of the joined parts, taken
\* as one key per tuple of parts.
make_cache_key(namespace, name, e164, limit) == << namespace, name, e164, limit >>

E164s == { "+16502530000", "+14155550100" }
WrappedName == "stub"
CheckKeys == { make_cache_key("reputation", WrappedName, e, "5") : e \in E164s }
UnitKeys == { make_cache_key("unit", "k1", "", ""), make_cache_key("unit", "k2", "", "") }
CacheKeys == CheckKeys \cup UnitKeys

\* cache.py:76 and cache.py:95: `expires_at <= now`
RowExpired_Strict(expires_at, now) == expires_at < now

RowExpired(expires_at, now) == expires_at <= now

\* cache.py:84: expires_at = int(time.time()) + int(ttl_seconds)
ExpiresAt_RoundedUp(ticks, ttl) == (ticks + ttl * TicksPerSecond + 1) \div TicksPerSecond

ExpiresAt(ticks, ttl) == int_time(ticks) + ttl

\* cache.py:67-79: the table after get(key)
StoreAfterGet(st, key, ticks) ==
    IF st[key] # NoRow /\ RowExpired(st[key].expires_at, int_time(ticks))
    THEN [st EXCEPT ![key] = NoRow]
    ELSE st

\* cache.py:67-79: the row get(key) reads its value from, NoRow when it returns
\* None (no row, or an expired one)
RowReadByGet(st, key, ticks) ==
    IF st[key] # NoRow /\ ~RowExpired(st[key].expires_at, int_time(ticks))
    THEN st[key]
    ELSE NoRow

\* cache.py:81-90: the table after set(key, value, ttl_seconds=ttl)
StoreAfterSet(st, key, doc, ttl, ticks) ==
    IF ttl <= 0 THEN st
    ELSE [st EXCEPT ![key] = [value_json |-> json_dumps(doc),
                              expires_at |-> ExpiresAt(ticks, ttl)]]

\* cache.py:92-96: the table after delete_expired()
StoreAfterDeleteExpired(st, ticks) ==
    [ k \in DOMAIN st |->
        IF st[k] # NoRow /\ RowExpired(st[k].expires_at, int_time(ticks)) THEN NoRow
        ELSE st[k] ]

NoOp == [op |-> "none", key |-> << >>, at |-> 0, found |-> NoRow, returned |-> NullDoc,
         hit |-> FALSE, raised |-> FALSE, deleted |-> 0]

NoSet == [at |-> -1, ttl |-> 0, value |-> NullDoc]

\* Values a caller of set passes: JSON-serializable documents.
SetValues == { DictDoc, ListDoc(<< NumberItem >>) }

NoCheck == [pc |-> "idle", e164 |-> "", key |-> << >>, saw |-> "", path |-> "", exc |-> "",
            results |-> << >>, returned |-> << >>, wrote |-> NoRow, ttl |-> 0,
            replayed_at |-> 0]

CacheIdle ==
    /\ wall_clock = 0
    /\ store = [ k \in CacheKeys |-> NoRow ]
    /\ last_op = NoOp
    /\ last_set = [ k \in CacheKeys |-> NoSet ]
    /\ cache_ttl = 0
    /\ chk = [ p \in 1..MaxChecks |-> NoCheck ]
    /\ wrapped_calls = 0

CheckVarsUnchanged == UNCHANGED << cache_ttl, chk, wrapped_calls >>

CacheFrame == UNCHANGED << ownerVars, runVars, limVars, retryVars, tcVars, callVars >>

\* Time passes.
Tick ==
    /\ wall_clock < MaxTicks
    /\ wall_clock' = wall_clock + 1
    /\ UNCHANGED << store, last_op, last_set, cache_ttl, chk, wrapped_calls >>
    /\ CacheFrame

\* cache.py:67-79: get(key)
CacheGet(key) ==
    LET row == RowReadByGet(store, key, wall_clock)
        raises == row # NoRow /\ json_loads_raises(row.value_json)
    IN
    /\ store' = StoreAfterGet(store, key, wall_clock)
    /\ last_op' = [op |-> "get", key |-> key, at |-> wall_clock, found |-> store[key],
                   returned |-> IF row = NoRow \/ raises THEN NullDoc
                                ELSE json_loads(row.value_json),
                   hit |-> row # NoRow /\ ~raises, raised |-> raises, deleted |-> 0]
    /\ UNCHANGED << wall_clock, last_set >>
    /\ CheckVarsUnchanged
    /\ CacheFrame

\* cache.py:81-90: set(key, value, ttl_seconds=ttl)
CacheSet(key, doc, ttl) ==
    /\ store' = StoreAfterSet(store, key, doc, ttl, wall_clock)
    /\ last_op' = [NoOp EXCEPT !.op = "set", !.key = key, !.at = wall_clock]
    /\ last_set' = IF ttl <= 0 THEN last_set
                   ELSE [last_set EXCEPT ![key] = [at |-> wall_clock, ttl |-> ttl,
                                                   value |-> doc]]
    /\ UNCHANGED << wall_clock >>
    /\ CheckVarsUnchanged
    /\ CacheFrame

\* cache.py:92-96: delete_expired()
CacheDeleteExpired ==
    /\ store' = StoreAfterDeleteExpired(store, wall_clock)
    /\ last_op' = [NoOp EXCEPT !.op = "delete_expired", !.at = wall_clock,
                               !.deleted = Cardinality({ k \in CacheKeys : store[k] # store'[k] })]
    /\ UNCHANGED << wall_clock, last_set >>
    /\ CheckVarsUnchanged
    /\ CacheFrame

CacheNext ==
    \/ Tick
    \/ \E key \in UnitKeys : CacheGet(key)
    \/ \E key \in UnitKeys, doc \in SetValues, ttl \in 0..MaxTTL : CacheSet(key, doc, ttl)
    \/ CacheDeleteExpired

(***************************************************************************)
(* cache.py: CachedReputationAdapter                                       *)
(***************************************************************************)
\* reputation/adapter.py:40-47: SearchResult.to_dict()
to_dict(r) ==
    [t |-> "dict", title |-> r.title, url |-> r.url, snippet |-> r.snippet,
     timestamp |-> IsoText(r.timestamp), source |-> r.source]

\* A replay that stamps every item with the time of the replay.
search_result_from_dict_Now(obj, now) ==
    [title |-> obj.title, url |-> obj.url, snippet |-> obj.snippet, timestamp |-> now,
     source |-> obj.source]

\* cache.py:99-116: the timestamp is parsed from its ISO text, an unparsable
\* or missing one becomes datetime.now()
search_result_from_dict(obj, now) ==
    [title |-> obj.title, url |-> obj.url, snippet |-> obj.snippet,
     timestamp |-> IF obj.timestamp.iso THEN obj.timestamp.instant ELSE now,
     source |-> obj.source]

\* cache.py:138: isinstance(cached, list)
IsListValue_WrongType(doc) == doc.t = "dict"

IsListValue(doc) == doc.t = "list"

\* cache.py:139-143: the items that are dicts, each turned into a SearchResult
ReplayCached(doc, now) ==
    LET objs == SelectSeq(doc.items, LAMBDA item : item.t = "dict")
    IN  [ n \in 1..Len(objs) |-> search_result_from_dict(objs[n], now) ]

\* What the wrapped adapter's check returns at time now.
WrappedResults(e164, now) ==
    { << >>,
      << [title |-> "hit", url |-> "https://example.invalid", snippet |-> e164,
          timestamp |-> now, source |-> WrappedName] >> }

\* cache.py:147: [r.to_dict() for r in results]
ResultsDoc(results) == ListDoc([ n \in 1..Len(results) |-> to_dict(results[n]) ])

\* What a get found under the key, for the history.
PayloadKind(row) ==
    IF row = NoRow THEN "none"
    ELSE IF json_loads_raises(row.value_json) THEN "not_json"
    ELSE LET doc == json_loads(row.value_json) IN
         IF doc.t # "list" THEN "not_list"
         ELSE IF \E n \in 1..Len(doc.items) : doc.items[n].t # "dict" THEN "non_object_items"
         ELSE IF \E n \in 1..Len(doc.items) : ~doc.items[n].timestamp.iso THEN "bad_timestamp"
         ELSE "evidence_list"

CachedInit ==
    /\ wall_clock = 0
    /\ store = [ k \in CacheKeys |-> NoRow ]
    /\ last_op = NoOp
    /\ last_set = [ k \in CacheKeys |-> NoSet ]
    /\ cache_ttl \in 0..MaxTTL
    /\ chk = [ p \in 1..MaxChecks |-> NoCheck ]
    /\ wrapped_calls = 0

\* cache.py:136-145: the key is made, get runs in its thread and the caller
\* resumes: JSONDecodeError of json.loads propagates, a list is replayed and
\* returned, anything else goes on to the wrapped adapter's check.  Callers
\* are interchangeable: they enter in the order of their numbers.
CheckGet(p, e164) ==
    LET key == make_cache_key("reputation", WrappedName, e164, "5")
        row == RowReadByGet(store, key, wall_clock)
        mine == [chk[p] EXCEPT !.e164 = e164, !.key = key, !.saw = PayloadKind(row),
                               !.ttl = cache_ttl]
    IN
    /\ chk[p].pc = "idle"
    /\ \A q \in 1..(p - 1) : chk[q].pc # "idle"
    /\ store' = StoreAfterGet(store, key, wall_clock)
    /\ IF row # NoRow /\ json_loads_raises(row.value_json)
       THEN /\ chk' = [chk EXCEPT ![p] = [mine EXCEPT !.pc = "raised",
                                                        !.exc = "JSONDecodeError"]]
            /\ UNCHANGED wrapped_calls
       ELSE IF row # NoRow /\ IsListValue(json_loads(row.value_json))
       THEN /\ chk' = [chk EXCEPT ![p] =
                         [mine EXCEPT !.pc = "done", !.path = "hit", !.replayed_at = wall_clock,
                                      !.returned = ReplayCached(json_loads(row.value_json),
                                                                wall_clock)]]
            /\ UNCHANGED wrapped_calls
       ELSE /\ chk' = [chk EXCEPT ![p] = [mine EXCEPT !.pc = "call", !.path = "miss"]]
            /\ wrapped_calls' = wrapped_calls + 1
    /\ UNCHANGED << wall_clock, last_op, last_set, cache_ttl >>
    /\ CacheFrame

\* cache.py:145: the wrapped adapter's check returns
WrappedReturns(p) ==
    /\ chk[p].pc = "call"
    /\ \E r \in WrappedResults(chk[p].e164, wall_clock) :
         chk' = [chk EXCEPT ![p].pc = "set", ![p].results = r]
    /\ UNCHANGED << wall_clock, store, last_op, last_set, cache_ttl, wrapped_calls >>
    /\ CacheFrame

\* cache.py:145: the wrapped adapter's check raises, and so does check
WrappedRaises(p) ==
    /\ chk[p].pc = "call"
    /\ chk' = [chk EXCEPT ![p].pc = "raised", ![p].exc = "TransportError"]
    /\ UNCHANGED << wall_clock, store, last_op, last_set, cache_ttl, wrapped_calls >>
    /\ CacheFrame

\* cache.py:146-149: set runs in its thread, check returns the results
CheckSet(p) ==
    /\ chk[p].pc = "set"
    /\ store' = StoreAfterSet(store, chk[p].key, ResultsDoc(chk[p].results), cache_ttl,
                              wall_clock)
    /\ chk' = [chk EXCEPT ![p].pc = "done",
                          ![p].returned = chk[p].results,
                          ![p].wrote = IF store' = store /\ cache_ttl <= 0 THEN NoRow
                                       ELSE store'[chk[p].key]]
    /\ UNCHANGED << wall_clock, last_op, last_set, cache_ttl, wrapped_calls >>
    /\ CacheFrame

\* Payloads that are not what check wrote: a text that is no JSON, a JSON
\* value that is no list, a list with an item that is no object, an object
\* whose timestamp does not parse.
MalformedTexts ==
    { NotJsonText,
      json_dumps(DictDoc),
      json_dumps(ListDoc(<< NumberItem >>)),
      json_dumps(ListDoc(<< [t |-> "dict", title |-> "hit", url |-> "https://example.invalid",
                             snippet |-> "", timestamp |-> GarbageText,
                             source |-> WrappedName] >>)) }

\* The cache file is damaged, or written by something else: a row's payload is
\* replaced.
Corrupt(key, text) ==
    /\ store[key] # NoRow
    /\ store[key].value_json \notin MalformedTexts
    /\ store' = [store EXCEPT ![key].value_json = text]
    /\ UNCHANGED << wall_clock, last_op, last_set, cache_ttl, chk, wrapped_calls >>
    /\ CacheFrame

CachedNext ==
    \/ Tick
    \/ \E p \in 1..MaxChecks, e \in E164s : CheckGet(p, e)
    \/ \E p \in 1..MaxChecks : WrappedReturns(p)
    \/ \E p \in 1..MaxChecks : WrappedRaises(p)
    \/ \E p \in 1..MaxChecks : CheckSet(p)

\* cli.py:119-123: a later lookup wraps the adapter anew over the same cache
\* file, with the settings.cache_ttl_seconds of that run.
Rewrap(ttl) ==
    /\ \A p \in 1..MaxChecks : chk[p].pc \notin { "call", "set" }
    /\ cache_ttl # ttl
    /\ cache_ttl' = ttl
    /\ UNCHANGED << wall_clock, store, last_op, last_set, chk, wrapped_calls >>
    /\ CacheFrame

CachedRewrapNext ==
    \/ CachedNext
    \/ \E ttl \in 0..MaxTTL : Rewrap(ttl)

CachedCorruptNext ==
    \/ CachedNext
    \/ \E key \in CheckKeys, text \in MalformedTexts : Corrupt(key, text)

\* The task running check is cancelled while it awaits the cache read
\* (cache.py:137): the get already runs in its thread and completes there.
CheckCancelledInGet(p, e164) ==
    LET key == make_cache_key("reputation", WrappedName, e164, "5") IN
    /\ chk[p].pc = "idle"
    /\ \A q \in 1..(p - 1) : chk[q].pc # "idle"
    /\ store' = StoreAfterGet(store, key, wall_clock)
    /\ chk' = [chk EXCEPT ![p] = [chk[p] EXCEPT !.pc = "cancelled", !.e164 = e164,
                                                !.key = key, !.exc = "CancelledError"]]
    /\ UNCHANGED << wall_clock, last_op, last_set, cache_ttl, wrapped_calls >>
    /\ CacheFrame

\* The task running check is cancelled while it awaits the wrapped adapter
\* (cache.py:145) or the cache write (cache.py:146-148).  asyncio.to_thread
\* has handed set to a worker thread: a call still queued is cancelled with
\* the task, a call that has started runs to its commit (thread_ran).
CheckCancelled(p, thread_ran) ==
    /\ chk[p].pc \in { "call", "set" }
    /\ chk[p].pc = "call" => ~thread_ran
    /\ store' = IF thread_ran
                THEN StoreAfterSet(store, chk[p].key, ResultsDoc(chk[p].results), cache_ttl,
                                   wall_clock)
                ELSE store
    /\ chk' = [chk EXCEPT ![p].pc = "cancelled",
                          ![p].exc = "CancelledError",
                          ![p].wrote = IF thread_ran /\ cache_ttl > 0
                                       THEN store'[chk[p].key] ELSE NoRow]
    /\ UNCHANGED << wall_clock, last_op, last_set, cache_ttl, wrapped_calls >>
    /\ CacheFrame

CachedCancelNext ==
    \/ CachedNext
    \/ \E p \in 1..MaxChecks, e \in E164s : CheckCancelledInGet(p, e)
    \/ \E p \in 1..MaxChecks, ran \in BOOLEAN : CheckCancelled(p, ran)

(***************************************************************************)
(* net/http.py: PerHostRateLimiter                                         *)
(***************************************************************************)
Hosts == { "hostA", "hostB" }
Waiters == 1..MaxWaiters

NoWait == [pc |-> "idle", host |-> "", wake |-> 0, done_at |-> -1]

LimiterIdle ==
    /\ mono_clock = 0
    /\ min_interval = 0
    /\ lock_holder = [ h \in Hosts |-> 0 ]
    /\ lock_queue = [ h \in Hosts |-> << >> ]
    /\ next_allowed = [ h \in Hosts |-> -1 ]
    /\ lim = [ p \in Waiters |-> NoWait ]

\* http.py:33-36: 0.0 for rate <= 0, else 1 / rate
LimiterInit ==
    /\ mono_clock = 0
    /\ min_interval \in { 0, MaxInterval }
    /\ lock_holder = [ h \in Hosts |-> 0 ]
    /\ lock_queue = [ h \in Hosts |-> << >> ]
    /\ next_allowed = [ h \in Hosts |-> -1 ]
    /\ lim = [ p \in Waiters |-> NoWait ]

LimiterFrame == UNCHANGED << ownerVars, runVars, cacheVars, retryVars, tcVars, callVars >>

\* The monotonic clock advances.
MonoTick ==
    /\ mono_clock < MaxMono
    /\ mono_clock' = mono_clock + 1
    /\ UNCHANGED << min_interval, lock_holder, lock_queue, next_allowed, lim >>
    /\ LimiterFrame

\* A limiter with one next-allowed time shared by all hosts.
NextAllowedGet_AnyHost(host, now) ==
    LET known == { next_allowed[h] : h \in Hosts } \ { -1 }
    IN  IF known = {} THEN now ELSE CHOOSE m \in known : \A n \in known : n <= m

\* http.py:49: self._next_allowed.get(host, now)
NextAllowedGet(host, now) ==
    IF next_allowed[host] = -1 THEN now ELSE next_allowed[host]

\* http.py:52: after the sleep `now` is taken to be next_allowed, the clock is
\* not read again.
NowAfterSleep(wake, clock) == wake

\* Leaving `async with lock`: the lock goes to the first caller waiting for it.
ReleaseLock(host) ==
    /\ lock_holder' = [lock_holder EXCEPT ![host] =
                         IF lock_queue[host] = << >> THEN 0 ELSE Head(lock_queue[host])]
    /\ lock_queue' = [lock_queue EXCEPT ![host] =
                        IF lock_queue[host] = << >> THEN << >> ELSE Tail(lock_queue[host])]

\* http.py:48-53 up to the sleep: the caller holds the lock of its host.
EnterSection(p, host) ==
    LET now == mono_clock
        na == NextAllowedGet(host, now)
    IN  IF na > now
        THEN /\ lim' = [lim EXCEPT ![p] = [pc |-> "sleeping", host |-> host, wake |-> na,
                                           done_at |-> -1]]
             /\ lock_holder' = [lock_holder EXCEPT ![host] = p]
             /\ UNCHANGED << lock_queue, next_allowed >>
        ELSE /\ next_allowed' = [next_allowed EXCEPT ![host] = now + min_interval]
             /\ lim' = [lim EXCEPT ![p] = [pc |-> "done", host |-> host, wake |-> 0,
                                           done_at |-> mono_clock]]
             /\ ReleaseLock(host)

\* http.py:38-47: wait(host) is called; rate <= 0 returns at once, a free lock
\* is taken, a held one is waited for.  Callers are interchangeable: they
\* enter in the order of their numbers.
WaitCall(p, host) ==
    /\ lim[p].pc = "idle"
    /\ \A q \in 1..(p - 1) : lim[q].pc # "idle"
    /\ IF min_interval <= 0
       THEN /\ lim' = [lim EXCEPT ![p] = [pc |-> "done", host |-> host, wake |-> 0,
                                          done_at |-> mono_clock]]
            /\ UNCHANGED << lock_holder, lock_queue, next_allowed >>
       ELSE IF lock_holder[host] = 0
       THEN EnterSection(p, host)
       ELSE /\ lim' = [lim EXCEPT ![p] = [pc |-> "queued", host |-> host, wake |-> 0,
                                          done_at |-> -1]]
            /\ lock_queue' = [lock_queue EXCEPT ![host] = Append(@, p)]
            /\ UNCHANGED << lock_holder, next_allowed >>
    /\ UNCHANGED << mono_clock, min_interval >>
    /\ LimiterFrame

\* http.py:47: a caller that waited for the lock has been given it and runs on.
WaitAcquired(p) ==
    /\ lim[p].pc = "queued"
    /\ lock_holder[lim[p].host] = p
    /\ EnterSection(p, lim[p].host)
    /\ UNCHANGED << mono_clock, min_interval >>
    /\ LimiterFrame

\* http.py:51-53: asyncio.sleep returns, at its deadline or later; the next
\* allowed time is set and the lock released.
WaitWakes(p) ==
    /\ lim[p].pc = "sleeping"
    /\ mono_clock >= lim[p].wake
    /\ LET now == NowAfterSleep(lim[p].wake, mono_clock) IN
         next_allowed' = [next_allowed EXCEPT ![lim[p].host] = now + min_interval]
    /\ lim' = [lim EXCEPT ![p].pc = "done", ![p].done_at = mono_clock]
    /\ ReleaseLock(lim[p].host)
    /\ UNCHANGED << mono_clock, min_interval >>
    /\ LimiterFrame

\* A sleeper is still due after the last instant at which callers arrive:
\* the clock goes on until it has woken.
SleepElapses ==
    /\ mono_clock >= MaxMono
    /\ \E p \in Waiters : lim[p].pc = "sleeping" /\ lim[p].wake > mono_clock
    /\ mono_clock' = mono_clock + 1
    /\ UNCHANGED << min_interval, lock_holder, lock_queue, next_allowed, lim >>
    /\ LimiterFrame

\* A cancelled caller that leaves holding the lock of its host.
CancelledExit_KeepsLock(host) == UNCHANGED << lock_holder, lock_queue >>

\* http.py:47: CancelledError leaves `async with lock` through __aexit__,
\* which releases the lock.
CancelledExit(host) == ReleaseLock(host)

\* The task is cancelled in asyncio.sleep (http.py:51): lines 52-53 are not
\* run.
WaitCancelledSleeping(p) ==
    /\ lim[p].pc = "sleeping"
    /\ lim' = [lim EXCEPT ![p].pc = "cancelled"]
    /\ CancelledExit(lim[p].host)
    /\ UNCHANGED << mono_clock, min_interval, next_allowed >>
    /\ LimiterFrame

\* The task is cancelled in lock.acquire() (http.py:47): it leaves the queue
\* of the lock, and passes the lock on if it had just been handed it.
WaitCancelledQueued(p) ==
    /\ lim[p].pc = "queued"
    /\ lim' = [lim EXCEPT ![p].pc = "cancelled"]
    /\ IF lock_holder[lim[p].host] = p
       THEN ReleaseLock(lim[p].host)
       ELSE /\ lock_queue' = [lock_queue EXCEPT ![lim[p].host] =
                                SelectSeq(@, LAMBDA q : q # p)]
            /\ UNCHANGED lock_holder
    /\ UNCHANGED << mono_clock, min_interval, next_allowed >>
    /\ LimiterFrame

LimiterNext ==
    \/ MonoTick
    \/ \E p \in Waiters, h \in Hosts : WaitCall(p, h)
    \/ \E p \in Waiters : WaitAcquired(p)
    \/ \E p \in Waiters : WaitWakes(p)

LimiterCancelNext ==
    \/ LimiterNext
    \/ SleepElapses
    \/ \E p \in Waiters : WaitCancelledSleeping(p)
    \/ \E p \in Waiters : WaitCancelledQueued(p)

\* The clock advances, and the event loop runs every task that is ready.
LimiterFairness ==
    /\ WF_vars(MonoTick \/ SleepElapses)
    /\ \A p \in Waiters : WF_vars(WaitAcquired(p)) /\ WF_vars(WaitWakes(p))

(***************************************************************************)
(* request_with_retries (net/http.py).  Durations are in hundredths of a   *)
(* second.                                                                 *)
(***************************************************************************)
\* HttpClientConfig.backoff_base_seconds = 0.5 and backoff_max_seconds = 8.0
BackoffBase == 50
BackoffCap == 800

\* config.backoff_max_seconds: the default, and a cap below twice the base
BackoffCaps == { 80, BackoffCap }

\* random.uniform(0.8, 1.2), in tenths: the ends and the middle of the range
Jitters == { 8, 10, 12 }

Min2(a, b) == IF a <= b THEN a ELSE b

Max2(a, b) == IF a >= b THEN a ELSE b

\* A backoff that forgets the cap.
compute_backoff_Uncapped(a, base, cap, j) == (base * (2 ^ a) * j) \div 10

\* http.py:74-77, with the random factor j / 10; the quotient is exact for a
\* base and a cap of whole tenths of a second.
compute_backoff(a, base, cap, j) == (Min2(cap, base * (2 ^ a)) * j) \div 10

\* Status codes a server can answer with: success, a redirect status that is
\* not followed, a client error, and two of the retried codes.
Statuses == { 200, 304, 404, 429, 503 }

\* A transport that also retries 404.
RetryableStatuses_With404 == { 404, 429, 500, 502, 503, 504 }

\* http.py:122
RetryableStatuses == { 429, 500, 502, 503, 504 }

\* httpx.Response.raise_for_status answers only a 4xx or 5xx with an error.
RaisesForStatus_ErrorsOnly(status) == status \div 100 \in { 4, 5 }

\* httpx.Response.raise_for_status (http.py:124, 149) raises HTTPStatusError
\* unless the response is a success (2xx).
RaisesForStatus(status) == status \div 100 # 2

\* resp.headers.get("Retry-After"): absent, an HTTP date, or a number of seconds
HttpDate == "Wed, 21 Oct 2015 07:28:00 GMT"

RetryAfterHeaders == { "None", HttpDate, "-1", "0", "120" }

\* float(retry_after) raises ValueError (http.py:130-131)
float_raises(text) == text = HttpDate

\* float(retry_after), in hundredths of a second
float_of(text) ==
    CASE text = "-1" -> -100
      [] text = "0" -> 0
      [] text = "120" -> 12000

NoResp == [status |-> 0, retry_after |-> "None"]

Urls == { [netloc |-> "api.duckduckgo.com", path |-> "/"],
          [netloc |-> "", path |-> "localhost"] }

\* http.py:21-23
host_for_url(url) == IF url.netloc # "" THEN url.netloc ELSE url.path

NoReqOut == [kind |-> "none", status |-> 0]

NoHist == [requests |-> 0, waits |-> 0, wait_host |-> "", sleeps |-> 0,
           only_retryable |-> TRUE, last_outcome |-> "none", jitter |-> 0,
           cancelled_in |-> "", requests_at_cancel |-> 0]

\* A sleep that retries forever: never the last attempt.
LastAttempt_OffByOne(a, max) == a > max

\* http.py:113, 123: attempt >= config.max_retries
LastAttempt(a, max) == a >= max

\* `except Exception` around the drain also catching the cancellation.
DrainSwallows_Everything(exc) == TRUE

\* http.py:141-144: `except Exception: pass` around resp.aread();
\* asyncio.CancelledError derives from BaseException and is not caught.
DrainSwallows(exc) == exc # "CancelledError"

\* http.py:127-138: the delay before the next attempt after a retried status
SleepFor(retry_after, a, j) ==
    IF retry_after # "None" /\ ~float_raises(retry_after)
    THEN float_of(retry_after)
    ELSE compute_backoff(a, BackoffBase, req_cfg.cap, j)

RetryIdle ==
    /\ req_cfg = [max_retries |-> 0, cap |-> BackoffCap, url |-> CHOOSE u \in Urls : TRUE,
                  limiter |-> FALSE]
    /\ req_pc = "idle"
    /\ attempt = 0
    /\ resp = NoResp
    /\ last_exc = "None"
    /\ sleep_for = 0
    /\ req_out = NoReqOut
    /\ req_hist = NoHist

\* The arguments of one call: max_retries may be negative, the rate limiter
\* may be None.
RetryInit ==
    /\ req_cfg \in [max_retries : -1..MaxRetries, cap : BackoffCaps, url : Urls,
                    limiter : BOOLEAN]
    /\ req_pc = "idle"
    /\ attempt = 0
    /\ resp = NoResp
    /\ last_exc = "None"
    /\ sleep_for = 0
    /\ req_out = NoReqOut
    /\ req_hist = NoHist

RetryFrame ==
    UNCHANGED << req_cfg, ownerVars, runVars, cacheVars, limVars, tcVars, callVars >>

\* http.py:103-105 and 153-155: iteration a of `for attempt in range(...)`
\* begins, with history h and last_exc le.  An exhausted range falls through
\* to the raise after the loop; otherwise the limiter is waited for when one
\* was passed, else the request is issued.
EnterAttempt(a, h, le) ==
    IF a > req_cfg.max_retries
    THEN /\ req_pc' = "raised"
         /\ req_out' = [kind |-> IF le # "None" THEN le ELSE "RuntimeError", status |-> 0]
         /\ req_hist' = h
         /\ UNCHANGED attempt
    ELSE /\ attempt' = a
         /\ UNCHANGED req_out
         /\ IF req_cfg.limiter
            THEN /\ req_pc' = "waiting"
                 /\ req_hist' = h
            ELSE /\ req_pc' = "requesting"
                 /\ req_hist' = [h EXCEPT !.requests = @ + 1]

\* http.py:97-103: the call begins.
RetryCall ==
    /\ req_pc = "idle"
    /\ IF req_cfg.max_retries < 0
       THEN /\ req_pc' = "raised"
            /\ req_out' = [kind |-> "ValueError", status |-> 0]
            /\ UNCHANGED << attempt, req_hist >>
       ELSE EnterAttempt(0, req_hist, last_exc)
    /\ UNCHANGED << resp, last_exc, sleep_for >>
    /\ RetryFrame

\* http.py:105-108: rate_limiter.wait(host) returns and the request is issued.
LimiterWaitReturns ==
    /\ req_pc = "waiting"
    /\ req_pc' = "requesting"
    /\ req_hist' = [req_hist EXCEPT !.waits = @ + 1,
                                    !.wait_host = host_for_url(req_cfg.url),
                                    !.requests = @ + 1]
    /\ UNCHANGED << attempt, resp, last_exc, sleep_for, req_out >>
    /\ RetryFrame

\* http.py:111-120: client.request raises httpx.TransportError.
RequestTransportError(j) ==
    /\ req_pc = "requesting"
    /\ last_exc' = "TransportError"
    /\ IF LastAttempt(attempt, req_cfg.max_retries)
       THEN /\ req_pc' = "raised"
            /\ req_out' = [kind |-> "TransportError", status |-> 0]
            /\ req_hist' = [req_hist EXCEPT !.last_outcome = "transport"]
            /\ UNCHANGED sleep_for
       ELSE /\ req_pc' = "sleeping"
            /\ sleep_for' = compute_backoff(attempt, BackoffBase, req_cfg.cap, j)
            /\ req_hist' = [req_hist EXCEPT !.last_outcome = "transport", !.jitter = j]
            /\ UNCHANGED req_out
    /\ UNCHANGED << attempt, resp >>
    /\ RetryFrame

\* http.py:124-125, 149-150: resp.raise_for_status(); return resp
RaiseOrReturn(status, h) ==
    /\ IF RaisesForStatus(status)
       THEN /\ req_pc' = "raised"
            /\ req_out' = [kind |-> "HTTPStatusError", status |-> status]
       ELSE /\ req_pc' = "returned"
            /\ req_out' = [kind |-> "response", status |-> status]
    /\ req_hist' = h
    /\ UNCHANGED sleep_for

\* http.py:108, 122-150: client.request returns a response.
RequestResponds(status, retry_after, j) ==
    /\ req_pc = "requesting"
    /\ resp' = [status |-> status, retry_after |-> retry_after]
    /\ IF status \in RetryableStatuses
       THEN IF LastAttempt(attempt, req_cfg.max_retries)
            THEN RaiseOrReturn(status, [req_hist EXCEPT !.last_outcome = "status"])
            ELSE /\ req_pc' = "draining"
                 /\ sleep_for' = SleepFor(retry_after, attempt, j)
                 /\ req_hist' = [req_hist EXCEPT
                        !.last_outcome = "status",
                        !.jitter = IF retry_after # "None" /\ ~float_raises(retry_after)
                                   THEN 0 ELSE j]
                 /\ UNCHANGED req_out
       ELSE RaiseOrReturn(status, [req_hist EXCEPT !.last_outcome = "status",
                                                   !.only_retryable = FALSE])
    /\ UNCHANGED << attempt, last_exc >>
    /\ RetryFrame

\* http.py:141-146: resp.aread() ends, with or without an exception.
DrainEnds(exc) ==
    /\ req_pc = "draining"
    /\ IF exc = "None" \/ DrainSwallows(exc)
       THEN /\ req_pc' = "sleeping"
            /\ UNCHANGED req_out
       ELSE /\ req_pc' = "raised"
            /\ req_out' = [kind |-> exc, status |-> 0]
    /\ UNCHANGED << attempt, resp, last_exc, sleep_for, req_hist >>
    /\ RetryFrame

\* http.py:115-120, 146-147: asyncio.sleep returns; `continue`.
SleepEnds ==
    /\ req_pc = "sleeping"
    /\ EnterAttempt(attempt + 1, [req_hist EXCEPT !.sleeps = @ + 1], last_exc)
    /\ UNCHANGED << resp, last_exc, sleep_for >>
    /\ RetryFrame

RetrySuspended == { "waiting", "requesting", "draining", "sleeping" }

\* The calling task is cancelled at an await: CancelledError is raised there
\* (http.py:105, 108-110, 142, 115/146).
RetryCancelled ==
    /\ req_pc \in RetrySuspended
    /\ req_hist' = [req_hist EXCEPT !.cancelled_in = req_pc,
                                    !.requests_at_cancel = req_hist.requests]
    /\ IF req_pc = "draining" /\ DrainSwallows("CancelledError")
       THEN /\ req_pc' = "sleeping"
            /\ UNCHANGED req_out
       ELSE /\ req_pc' = "cancelled"
            /\ req_out' = [kind |-> "CancelledError", status |-> 0]
    /\ UNCHANGED << attempt, resp, last_exc, sleep_for >>
    /\ RetryFrame

RetryNext ==
    \/ RetryCall
    \/ LimiterWaitReturns
    \/ \E j \in Jitters : RequestTransportError(j)
    \/ \E st \in Statuses, ra \in RetryAfterHeaders, j \in Jitters : RequestResponds(st, ra, j)
    \/ \E exc \in { "None", "ReadError" } : DrainEnds(exc)
    \/ SleepEnds
    \/ RetryCancelled

(***************************************************************************)
(* TruecallerAdapter.lookup_owner called directly                          *)
(* (owner/truecaller_adapter.py)                                           *)
(***************************************************************************)
\* self._api_key: None, the empty string or a key
ApiKeys == { "None", "", "key" }

Callers == { "None", "gui" }

Limits == { 1, 5 }

NoTcOut == [kind |-> "none", associations |-> << >>, pii |-> NoPII]

\* A check that only asks for a legal basis to be present.
ConsentMissing_OnlyAbsent(lb) == lb = "None"

\* truecaller_adapter.py:44
ConsentMissing(lb) == lb = "None" \/ LegalBasisGet(lb) # "True"

\* truecaller_adapter.py:42: not self._enabled or not self._api_key
NotConfigured(enabled, api_key) == ~enabled \/ api_key \in { "None", "" }

TcIdle ==
    /\ tc_in = [enabled |-> FALSE, api_key |-> "None", legal_basis |-> "None",
                e164 |-> "", caller |-> "None", limit |-> 5]
    /\ tc_out = NoTcOut

TcInit ==
    /\ tc_in \in [enabled : BOOLEAN, api_key : ApiKeys, legal_basis : LegalBases,
                  e164 : E164s, caller : Callers, limit : Limits]
    /\ tc_out = NoTcOut

\* truecaller_adapter.py:34-49
LookupOwner ==
    /\ tc_out = NoTcOut
    /\ tc_out' =
         IF NotConfigured(tc_in.enabled, tc_in.api_key)
         THEN [kind |-> "PermissionError", associations |-> << >>, pii |-> NoPII]
         ELSE IF ConsentMissing(tc_in.legal_basis)
         THEN [kind |-> "PermissionError", associations |-> << >>, pii |-> NoPII]
         ELSE [kind |-> "result", associations |-> << >>, pii |-> NoPII]
    /\ UNCHANGED << tc_in, ownerVars, runVars, cacheVars, limVars, retryVars, callVars >>

TcNext == LookupOwner

(***************************************************************************)
(* Calls of functions without side effects                                 *)
(***************************************************************************)
NoArgs == [fn |-> "none"]

NoResult == [fn |-> "none"]

CallIdle ==
    /\ call_args = NoArgs
    /\ call_result = NoResult

CallFrame ==
    UNCHANGED << call_args, ownerVars, runVars, cacheVars, limVars, retryVars, tcVars >>

(***************************************************************************)
(* score_risk (reputation/score.py).  Weights are in halves of a point,     *)
(* contributions and sums in 1/ScoreUnit of a point, so that the division   *)
(* of the age by 365 is exact.                                              *)
(***************************************************************************)
\* score.py:117-118: age_of_first_mention_days / 365.0, capped at 10.0 years
DaysPerYear == 365
MaxAgeYears == 10

ScoreUnit == 2 * DaysPerYear

BoolSignalNames == << "found_in_scam_db", "voip", "found_in_classifieds", "business_listing" >>

AgeWeightName == "age_of_first_mention_per_year"

\* Default weights with a business listing that raises the risk.
DefaultWeights_BusinessRaises ==
    [found_in_scam_db |-> 120, voip |-> 30, found_in_classifieds |-> 30,
     business_listing |-> 20, age_of_first_mention_per_year |-> -4]

\* score.py:46-60: 60.0, 15.0, 15.0, -10.0 and -2.0 per year
DefaultWeights ==
    [found_in_scam_db |-> 120, voip |-> 30, found_in_classifieds |-> 30,
     business_listing |-> -20, age_of_first_mention_per_year |-> -4]

\* The weights argument: None or empty, or a map naming some keys; 5.0, 2.5,
\* 250.0, -15.0, 10.0 and 1.0 among the values, and a key score_risk never
\* reads.
OverrideValues ==
    [found_in_scam_db |-> 10, found_in_classifieds |-> 5, voip |-> -30,
     business_listing |-> 20, age_of_first_mention_per_year |-> 2, unknown_signal |-> 100]

WeightMaps ==
    { [ k \in D |-> OverrideValues[k] ] :
        D \in { {}, { "found_in_scam_db" }, { "found_in_classifieds" },
                { "voip", "business_listing" }, { "age_of_first_mention_per_year" },
                { "unknown_signal" } } }
    \cup { [ k \in { "found_in_scam_db" } |-> 500 ] }

\* age_of_first_mention_days: None, or a number of days
NoAge == [given |-> FALSE, days |-> 0]

Ages == { NoAge } \cup { [given |-> TRUE, days |-> d] : d \in { -365, 0, 100, 365, 4000 } }

\* Weights that ignore the map passed in.
MergedWeight_DefaultsOnly(name, weights) ==
    IF name \in DOMAIN DefaultWeights THEN DefaultWeights[name] ELSE 0

\* score.py:88-91, 96: w = defaults updated with weights; w.get(name, 0.0)
MergedWeight(name, weights) ==
    IF name \in DOMAIN weights THEN weights[name]
    ELSE IF name \in DOMAIN DefaultWeights THEN DefaultWeights[name]
    ELSE 0

\* score.py:63-64
clamp(n, lo, hi) == Max2(lo, Min2(hi, n))

\* round(n / d) of Python 3 for n >= 0: to the nearest integer, a tie to the
\* even one.
round_half_even(n, d) ==
    LET q == n \div d
        r == n % d
    IN  IF 2 * r < d THEN q
        ELSE IF 2 * r > d THEN q + 1
        ELSE IF q % 2 = 0 THEN q ELSE q + 1

\* score.py:95-100: one entry of the breakdown for a boolean signal
BoolSignal(name, value, weights) ==
    [name |-> name, weight |-> MergedWeight(name, weights),
     contribution |-> MergedWeight(name, weights) * DaysPerYear * (IF value THEN 1 ELSE 0)]

\* score.py:115-128: the entry for the age, none when the age is None or negative
AgeSignals(age, weights) ==
    IF age.given /\ age.days >= 0
    THEN << [name |-> AgeWeightName, weight |-> MergedWeight(AgeWeightName, weights),
             contribution |-> MergedWeight(AgeWeightName, weights)
                              * clamp(age.days, 0, MaxAgeYears * DaysPerYear)] >>
    ELSE << >>

RECURSIVE SumContributions(_)
SumContributions(breakdown) ==
    IF breakdown = << >> THEN 0
    ELSE Head(breakdown).contribution + SumContributions(Tail(breakdown))

\* score.py:67-132
score_risk(a) ==
    LET breakdown == [ k \in 1..Len(BoolSignalNames) |->
                         BoolSignal(BoolSignalNames[k], a[BoolSignalNames[k]], a.weights) ]
                     \o AgeSignals(a.age, a.weights)
        raw_score == SumContributions(breakdown)
    IN  [fn |-> "score_risk",
         score |-> round_half_even(clamp(raw_score, 0, 100 * ScoreUnit), ScoreUnit),
         breakdown |-> breakdown]

ScoreInit ==
    /\ call_args \in [fn : { "score_risk" }, found_in_scam_db : BOOLEAN, voip : BOOLEAN,
                      found_in_classifieds : BOOLEAN, business_listing : BOOLEAN,
                      age : Ages, weights : WeightMaps]
    /\ call_result = NoResult

ScoreRisk ==
    /\ call_args.fn = "score_risk"
    /\ call_result = NoResult
    /\ call_result' = score_risk(call_args)
    /\ CallFrame

(***************************************************************************)
(* classify (owner/classify.py) called on its own                          *)
(***************************************************************************)
\* OwnerAssociation.label (interface.py:21-36)
AssociationLabels ==
    { "scam_report", "business_listing", "classified_ad", "mention", "identity_confirmed" }

PiiPayloads ==
    { NoPII } \cup { [name |-> "Jane Doe", source |-> "stub_pii", owner_category |-> c] :
                     c \in OwnerCategories }

ClassifyInit ==
    /\ call_args \in [fn : { "classify" },
                      associations : SeqsUpTo({ [label |-> l] : l \in AssociationLabels },
                                              MaxAssociations),
                      voip_flag : BOOLEAN, pii : PiiPayloads]
    /\ call_result = NoResult

Classify ==
    /\ call_args.fn = "classify"
    /\ call_result = NoResult
    /\ call_result' = [fn |-> "classify",
                       ownership_type |-> classify(call_args.associations,
                                                   call_args.voip_flag, call_args.pii)]
    /\ CallFrame

(***************************************************************************)
(* apply_signal_overrides and generate_signal_override_evidence            *)
(* (reputation/signals.py)                                                 *)
(***************************************************************************)
\* signals.py:8-12
SIGNAL_NAMES == << "voip", "found_in_classifieds", "business_listing" >>

\* signals.py:16-20
SIGNAL_DISPLAY_NAMES ==
    [voip |-> "VoIP signal", found_in_classifieds |-> "classifieds mention",
     business_listing |-> "business directory mention"]

NumberTypes == { "voip", "mobile" }

\* An override that fires for every number once its set is not empty.
OverrideHit_AnyNumber(e164, overrides, name) == overrides[name] # {}

\* signals.py:67, 71: e164 in overrides.get(name, frozenset())
OverrideHit(e164, overrides, name) == e164 \in overrides[name]

\* signals.py:54-75
apply_signal_overrides(e164, number_type, domain_signals, overrides) ==
    LET hits == [ name \in { SIGNAL_NAMES[k] : k \in 1..Len(SIGNAL_NAMES) } |->
                    OverrideHit(e164, overrides, name) ]
    IN  [voip_signal |-> (number_type = "voip") \/ hits["voip"],
         merged |-> [ name \in DOMAIN domain_signals |-> domain_signals[name] \/ hits[name] ],
         hits |-> hits]

\* signals.py:78-95
generate_signal_override_evidence(e164, hits) ==
    LET fired == SelectSeq(SIGNAL_NAMES, LAMBDA name : hits[name])
    IN  [ k \in 1..Len(fired) |->
            [title |-> SIGNAL_DISPLAY_NAMES[fired[k]], url |-> "", e164 |-> e164,
             source |-> "signal_override"] ]

OverridesInit ==
    /\ call_args \in [fn : { "apply_signal_overrides" }, e164 : E164s,
                      number_type : NumberTypes,
                      domain_signals : [found_in_classifieds : BOOLEAN,
                                        business_listing : BOOLEAN],
                      overrides : [voip : SUBSET E164s, found_in_classifieds : SUBSET E164s,
                                   business_listing : SUBSET E164s]]
    /\ call_result = NoResult

\* gui.py:457-463: the signals are merged with the overrides and the evidence
\* of the fired overrides is generated.
ApplyOverrides ==
    /\ call_args.fn = "apply_signal_overrides"
    /\ call_result = NoResult
    /\ LET r == apply_signal_overrides(call_args.e164, call_args.number_type,
                                       call_args.domain_signals, call_args.overrides)
       IN  call_result' = [fn |-> "apply_signal_overrides", voip_signal |-> r.voip_signal,
                           merged |-> r.merged, hits |-> r.hits,
                           evidence |-> generate_signal_override_evidence(call_args.e164,
                                                                          r.hits)]
    /\ CallFrame

(***************************************************************************)
(* score_owner_confidence (owner/signals.py).  Weights, contributions and   *)
(* sums are in halves of a point.                                           *)
(***************************************************************************)
\* signals.py:217, 224, 232: cap=3.0
CountCap == 3

\* interface.py:10
OwnershipTypes == { "business", "individual", "voip", "unknown" }

\* signals.py:162-171: 25.0, 15.0, 10.0, 5.0, 50.0, 10.0 and 5.0
DefaultOwnerWeights ==
    [voip |-> 50, business_listing |-> 30, classified_ad |-> 20, scam_report |-> 10,
     pii_confirmed |-> 100, multiple_sources |-> 20, evidence_any |-> 10]

\* The weights argument: None; every weight 1.0; a negative and a half weight;
\* a weight of 45.0 that takes three listings over 100.
OwnerWeightMaps ==
    { [ k \in {} |-> 0 ],
      [ k \in DOMAIN DefaultOwnerWeights |-> 2 ],
      [ k \in { "pii_confirmed", "classified_ad" } |->
          IF k = "pii_confirmed" THEN -100 ELSE 1 ],
      [ k \in { "business_listing" } |-> 90 ] }

\* signals.py:179-187, 192
OwnerWeight(signal, weights) ==
    IF signal \in DOMAIN weights THEN weights[signal] ELSE DefaultOwnerWeights[signal]

\* A count that is not capped.
CappedValue_Uncapped(value, capped) == value

\* signals.py:193-195: v = min(v, cap) when a cap is given
CappedValue(value, capped) == IF capped THEN Min2(value, CountCap) ELSE value

\* signals.py:191-203: add(signal, value, cap=...)
ConfidenceSignal(signal, value, capped, weights) ==
    [signal |-> signal, weight |-> OwnerWeight(signal, weights),
     value |-> CappedValue(value, capped),
     contribution |-> OwnerWeight(signal, weights) * CappedValue(value, capped)]

\* signals.py:178-245
score_owner_confidence(ownership_type, signals, weights) ==
    LET one(signal, value, capped) == << ConfidenceSignal(signal, value, capped, weights) >>
        breakdown ==
            (IF signals.evidence_count > 0 THEN one("evidence_any", 1, FALSE) ELSE << >>)
            \o (IF signals.sources_count >= 2 THEN one("multiple_sources", 1, FALSE)
                ELSE << >>)
            \o (IF ownership_type = "voip"
                THEN one("voip", IF signals.voip THEN 1 ELSE 0, FALSE)
                ELSE IF ownership_type = "business"
                THEN one("business_listing", signals.business_listing_count, TRUE)
                ELSE IF ownership_type = "individual"
                THEN one("classified_ad", signals.classified_ads_count, TRUE)
                ELSE << >>)
            \o (IF signals.scam_report_count > 0
                THEN one("scam_report", signals.scam_report_count, TRUE) ELSE << >>)
            \o (IF signals.pii_present THEN one("pii_confirmed", 1, FALSE) ELSE << >>)
        raw == SumContributions(breakdown)
    IN  [fn |-> "score_owner_confidence",
         score |-> round_half_even(clamp(raw, 0, 200), 2),
         breakdown |-> breakdown]

\* OwnerSignals as extract_owner_signals (signals.py:102-132) can make them:
\* no more sources than evidence items.
ConfidenceInit ==
    /\ call_args \in [fn : { "score_owner_confidence" }, ownership_type : OwnershipTypes,
                      signals : { s \in [business_listing_count : 0..MaxSignalCount,
                                         classified_ads_count : 0..MaxSignalCount,
                                         scam_report_count : 0..MaxSignalCount,
                                         voip : BOOLEAN, evidence_count : 0..2,
                                         sources_count : 0..2, pii_present : BOOLEAN] :
                                  s.sources_count <= s.evidence_count },
                      weights : OwnerWeightMaps]
    /\ call_result = NoResult

ScoreOwnerConfidence ==
    /\ call_args.fn = "score_owner_confidence"
    /\ call_result = NoResult
    /\ call_result' = score_owner_confidence(call_args.ownership_type, call_args.signals,
                                             call_args.weights)
    /\ CallFrame

(***************************************************************************)
(* load_scam_list and check_scam_list (reputation/public.py)               *)
(***************************************************************************)
MaxEntries == 2

MaxLimit == 2

\* An item of the JSON array of the dataset: an object, of which a key that
\* is absent or empty is "" (obj.get(k) or default treats the two alike), or
\* a value that is not an object.
NotAnObject == [kind |-> "number"]

RawObjects ==
    [kind : { "object" }, e164 : E164s, label : { "IRS scam", "" },
     source : { "ftc", "" }, reference_url : { "https://ftc.example/1", "" }]

RawItems == { o \in RawObjects : o.source = "" => o.reference_url = "" } \cup { NotAnObject }

scamdb_url(source) == "scamdb://" \o source

\* public.py:36-56; last_seen and notes only feed the snippet and are left out.
parse_entry(obj) ==
    LET source == IF obj.source # "" THEN obj.source ELSE "unknown"
    IN  [e164 |-> obj.e164, label |-> obj.label, source |-> source,
         reference_url |-> IF obj.reference_url # "" THEN obj.reference_url
                           ELSE scamdb_url(source)]

RECURSIVE load_entries(_)
\* public.py:81-85: the items that are objects, parsed, in the order of the array.
load_entries(raw) ==
    IF raw = << >> THEN << >>
    ELSE LET rest == load_entries(Tail(raw))
         IN  IF Head(raw).kind = "object" THEN << parse_entry(Head(raw)) >> \o rest
             ELSE rest

slice_to_All(s, n) == s

\* s[:n] of Python: the first n items when n >= 0, all but the last -n otherwise.
slice_to(s, n) ==
    LET stop == IF n >= 0 THEN Min2(n, Len(s)) ELSE Max2(Len(s) + n, 0)
    IN  SubSeq(s, 1, stop)

\* public.py:88-112
check_scam_list(e164, entries, limit) ==
    LET matches == SelectSeq(entries, LAMBDA e : e.e164 = e164)
        taken == slice_to(matches, limit)
    IN  [k \in 1..Len(taken) |->
            [title |-> taken[k].label, url |-> taken[k].reference_url,
             source |-> "public_scam_db"]]

\* PublicScamListAdapter(scam_list_path) on a dataset file that holds an array,
\* then one check.
DatasetInit ==
    /\ call_args \in [fn : { "check_scam_list" }, dataset : SeqsUpTo(RawItems, MaxEntries),
                      e164 : E164s, limit : -1..MaxLimit]
    /\ call_result = NoResult

\* public.py:120-124
CheckScamList ==
    /\ call_args.fn = "check_scam_list"
    /\ call_result = NoResult
    /\ call_result' = [fn |-> "check_scam_list", raised |-> FALSE,
                       results |-> check_scam_list(call_args.e164,
                                                   load_entries(call_args.dataset),
                                                   call_args.limit)]
    /\ CallFrame

(***************************************************************************)
(* lookup_async (cli.py): the adapters are built, wrapped in the cache, run *)
(* and their evidence is scored                                            *)
(***************************************************************************)
\* The file at settings.scam_list_path: a JSON array of items, or a JSON
\* value that is no array.
ScamListFiles ==
    { [array |-> TRUE, items |-> s] : s \in SeqsUpTo(RawItems, 1) }
    \cup { [array |-> FALSE, items |-> << >>] }

AdapterLists ==
    { << >>, << "public" >>, << "duckduckgo" >>, << "public", "duckduckgo" >>,
      << "duckduckgo", "public" >>, << "google" >>, << "google", "public" >>,
      << "duckduckgo", "google" >> }

\* A constructor that looks at the key only.
GoogleConfigMissing_KeyOnly(api_key, cx) == api_key \in { "None", "" }

\* google.py:42: not api_key or not cx, of settings.gcs_api_key and
\* settings.gcs_cx, each None or a text
GoogleConfigMissing(api_key, cx) == api_key \in { "None", "" } \/ cx \in { "None", "" }

\* cli.py:94-117: the adapters that are built, in the order asked for; the
\* authenticated adapter whose constructor raises is logged and left out.
built_adapters(a) ==
    SelectSeq(a.adapters,
              LAMBDA n : n # "google" \/ ~GoogleConfigMissing(a.gcs_api_key, a.gcs_cx))

\* The cache as the dataset adapter finds it: not used (--no-cache), without
\* a row under its key, with the row an earlier lookup of the same dataset
\* wrote, or with a row whose payload is no JSON.
CacheStates == { "disabled", "empty", "populated", "not_json" }

\* What the check of the search adapter does: it raises, or returns a list.
SearchOutcomes ==
    { [raised |-> TRUE, results |-> << >>], [raised |-> FALSE, results |-> << >>] }
    \cup { [raised |-> FALSE,
            results |-> << [title |-> "listing", url |-> u, snippet |-> "",
                            timestamp |-> 2, source |-> "duckduckgo"] >>] :
           u \in { "https://sfbay.craigslist.org/x", "https://www.yelp.com/biz/x" } }

\* public.py:93-110: the SearchResult of an entry, stamped with now_utc(); the
\* snippet is made of last_seen and notes, left out of the entries.
stamped(results, ts) ==
    [ k \in 1..Len(results) |->
        [title |-> results[k].title, url |-> results[k].url, snippet |-> "",
         timestamp |-> ts, source |-> results[k].source] ]

\* score.py:152-170
infer_domain_signals(results) ==
    [found_in_classifieds |->
         \E k \in 1..Len(results) : any_marker_in(lower(results[k].url), CLASSIFIEDS_MARKERS),
     business_listing |->
         \E k \in 1..Len(results) : any_marker_in(lower(results[k].url), BUSINESS_MARKERS)]

MaxUrls == 2

DomainInit ==
    /\ call_args \in [fn : { "infer_domain_signals" },
                      results : SeqsUpTo([url : UrlTexts], MaxUrls)]
    /\ call_result = NoResult

InferDomainSignals ==
    /\ call_args.fn = "infer_domain_signals"
    /\ call_result = NoResult
    /\ call_result' = [fn |-> "infer_domain_signals",
                       signals |-> infer_domain_signals(call_args.results)]
    /\ CallFrame

\* cli.py:55 and cache.py:135-149: check(e164, limit=5) of the dataset
\* adapter, bare or wrapped in CachedReputationAdapter.
dataset_check(a) ==
    LET entries == load_entries(a.scam_list.items)
        direct(ts) == stamped(check_scam_list(a.e164, entries, 5), ts)
    IN  CASE a.cache = "not_json" -> [raised |-> TRUE, results |-> << >>]
          [] a.cache = "populated" ->
               [raised |-> FALSE,
                results |-> ReplayCached(json_loads(json_dumps(ResultsDoc(direct(1)))), 2)]
          [] OTHER -> [raised |-> FALSE, results |-> direct(2)]

adapter_check(name, a) ==
    CASE name = "public" -> dataset_check(a)
      [] name = "google" ->
           [raised |-> a.google_raises,
            results |-> IF a.google_raises THEN << >>
                        ELSE << [title |-> "page", url |-> "https://example.org/x",
                                 snippet |-> "", timestamp |-> 2, source |-> "google"] >>]
      [] OTHER -> a.search

RECURSIVE run_adapters_evidence(_, _)
\* cli.py:60-67: the results of the adapters that did not raise, in the
\* order of the adapters
run_adapters_evidence(names, a) ==
    IF names = << >> THEN << >>
    ELSE LET out == adapter_check(Head(names), a)
         IN  (IF out.raised THEN << >> ELSE out.results)
             \o run_adapters_evidence(Tail(names), a)

Range(s) == { s[k] : k \in 1..Len(s) }

\* cli.py:115 and public.py:77-79, 120-121: the dataset adapter loads its file
\* when it is built, outside any try
ConstructionRaises(a) == "public" \in Range(a.adapters) /\ ~a.scam_list.array

\* cli.py:72-170
lookup_async(a) ==
    IF ConstructionRaises(a)
    THEN [fn |-> "lookup_async", raised |-> TRUE]
    ELSE LET merged == run_adapters_evidence(built_adapters(a), a)
             found_in_scam_db ==
                 \E k \in 1..Len(merged) : merged[k].source = "public_scam_db"
             domain_signals == infer_domain_signals(merged)
         IN  [fn |-> "lookup_async", raised |-> FALSE, evidence |-> merged,
              checked |-> Range(built_adapters(a)),
              adapter_errors |-> { n \in Range(built_adapters(a)) : adapter_check(n, a).raised },
              found_in_scam_db |-> found_in_scam_db,
              score |-> score_risk([found_in_scam_db |-> found_in_scam_db, voip |-> a.voip,
                                    found_in_classifieds |-> domain_signals.found_in_classifieds,
                                    business_listing |-> domain_signals.business_listing,
                                    age |-> NoAge, weights |-> a.weights])]

LookupInit ==
    /\ call_args \in [fn : { "lookup_async" }, adapters : AdapterLists,
                      scam_list : ScamListFiles, cache : CacheStates, e164 : E164s,
                      search : SearchOutcomes, voip : BOOLEAN,
                      gcs_api_key : { "None", "secret" }, gcs_cx : { "", "secret" },
                      google_raises : BOOLEAN,
                      weights : { w \in WeightMaps : DOMAIN w \subseteq { "found_in_scam_db" } }]
    /\ call_result = NoResult

Lookup ==
    /\ call_args.fn = "lookup_async"
    /\ call_result = NoResult
    /\ call_result' = lookup_async(call_args)
    /\ CallFrame

(***************************************************************************)
(* _compute_backoff (net/http.py) called on its own                        *)
(***************************************************************************)
MaxAttempt == 4

\* base and cap in hundredths of a second: 0, 0.1, 0.3, the defaults 0.5 and 8.0
BackoffBases == { 0, 10, 30, BackoffBase }

BackoffCapArgs == { 0, 10, 80, BackoffCap }

BackoffInit ==
    /\ call_args \in [fn : { "compute_backoff" }, attempt : 0..MaxAttempt,
                      base : BackoffBases, cap : BackoffCapArgs, jitter : Jitters]
    /\ call_result = NoResult

ComputeBackoff ==
    /\ call_args.fn = "compute_backoff"
    /\ call_result = NoResult
    /\ call_result' = [fn |-> "compute_backoff",
                       delay |-> compute_backoff(call_args.attempt, call_args.base,
                                                 call_args.cap, call_args.jitter)]
    /\ CallFrame

(***************************************************************************)
(* search of the two search adapters (reputation/duckduckgo.py,            *)
(* reputation/google.py).  A text is known by its length.                  *)
(***************************************************************************)
\* duckduckgo.py:83, 102, 119: text[:120]
TitleLimit == 120

\* Lengths of the texts of a response: empty, short, at the limit, past it.
TextLengths == { 0, 1, TitleLimit, TitleLimit + 1, 200 }

MaxItems == 1

\* An item of Results, RelatedTopics or items: the length of its text or
\* title, and whether it has a URL.
ResponseItems == [len : TextLengths, has_url : BOOLEAN]

SearchLimits == { 1, 5 }

\* text[:n]
truncated(len, n) == Min2(len, n)

\* duckduckgo.py:75-88, 97-109, 114-126: an entry with a URL and a text gives
\* a result titled with the first 120 characters of the text
ddg_results(entries) ==
    LET usable == SelectSeq(entries, LAMBDA e : e.has_url /\ e.len > 0)
    IN  [ k \in 1..Len(usable) |->
            [source |-> "duckduckgo", title_len |-> truncated(usable[k].len, TitleLimit),
             snippet_len |-> usable[k].len] ]

\* duckduckgo.py:55-129: the abstract, then Results, then RelatedTopics, cut
\* at limit
ddg_search(data, limit) ==
    slice_to(ddg_results(data.abstract \o data.results \o data.related), limit)

\* google.py:68-91: every item is a result under its own title; the loop
\* ends once limit results are collected
google_search(data, limit) ==
    LET out == [ k \in 1..Len(data.items) |->
                   [source |-> "google", title_len |-> data.items[k].len,
                    snippet_len |-> data.items[k].len] ]
    IN  SubSeq(out, 1, Min2(Len(out), Max2(limit, 1)))

\* The JSON documents the two APIs answer with.
SearchInit ==
    /\ call_args \in
         [fn : { "ddg_search" }, limit : SearchLimits,
          data : [abstract : SeqsUpTo(ResponseItems, MaxItems),
                  results : SeqsUpTo(ResponseItems, MaxItems),
                  related : SeqsUpTo(ResponseItems, MaxItems)]]
         \cup [fn : { "google_search" }, limit : SearchLimits,
               data : [items : SeqsUpTo(ResponseItems, MaxItems + 1)]]
    /\ call_result = NoResult

DuckDuckGoSearch ==
    /\ call_args.fn = "ddg_search"
    /\ call_result = NoResult
    /\ call_result' = [fn |-> "search", results |-> ddg_search(call_args.data, call_args.limit)]
    /\ CallFrame

GoogleSearch ==
    /\ call_args.fn = "google_search"
    /\ call_result = NoResult
    /\ call_result' = [fn |-> "search",
                       results |-> google_search(call_args.data, call_args.limit)]
    /\ CallFrame

SearchNext ==
    \/ DuckDuckGoSearch
    \/ GoogleSearch

(***************************************************************************)
(* associations_from_evidence and extract_owner_signals (owner/signals.py) *)
(* called on their own                                                     *)
(***************************************************************************)
\* Evidence of the dataset adapter and of a search adapter, fetched at two
\* instants.
LabelledEvidence ==
    [source : { "public_scam_db", "duckduckgo" },
     url : { "https://example.org/x", "https://sfbay.craigslist.org/x",
             "https://WWW.YELP.COM/biz/x", "https://yelp.craigslist.org/x",
             "scamdb://yelp.example", "SCAMDB://sample" },
     snippet : { PlainText }, timestamp : 1..2]

CountLabel(assocs, label) ==
    Cardinality({ k \in 1..Len(assocs) : assocs[k].label = label })

NoInstant == [iso |-> FALSE, instant |-> 0]

\* signals.py:102-132; first_seen and last_seen are the ISO texts of the
\* first and the last of the evidence timestamps sorted, None without evidence.
extract_owner_signals(ev, assocs, voip, has_pii) ==
    LET instants == { ev[k].timestamp : k \in 1..Len(ev) }
        scam_report_count == CountLabel(assocs, "scam_report")
    IN  [found_in_scam_db |-> scam_report_count > 0,
         business_listing_count |-> CountLabel(assocs, "business_listing"),
         classified_ads_count |-> CountLabel(assocs, "classified_ad"),
         scam_report_count |-> scam_report_count,
         voip |-> voip,
         evidence_count |-> Len(ev),
         sources_count |-> Cardinality({ ev[k].source : k \in 1..Len(ev) } \ { "" }),
         first_seen |-> IF ev = << >> THEN NoInstant
                        ELSE IsoText(CHOOSE t \in instants : \A u \in instants : t <= u),
         last_seen |-> IF ev = << >> THEN NoInstant
                       ELSE IsoText(CHOOSE t \in instants : \A u \in instants : t >= u),
         pii_present |-> has_pii]

AssociationsInit ==
    /\ call_args \in [fn : { "extract_owner_signals" },
                      evidence : SeqsUpTo(LabelledEvidence, MaxUrls), voip_flag : BOOLEAN]
    /\ call_result = NoResult

ExtractOwnerSignals ==
    /\ call_args.fn = "extract_owner_signals"
    /\ call_result = NoResult
    /\ LET assocs == associations_from_evidence(call_args.evidence)
       IN  call_result' = [fn |-> "extract_owner_signals", associations |-> assocs,
                           signals |-> extract_owner_signals(call_args.evidence, assocs,
                                                             call_args.voip_flag, FALSE)]
    /\ CallFrame

(***************************************************************************)
(* Specifications                                                          *)
(***************************************************************************)
InitOwner == OwnerInit /\ RunIdle /\ CacheIdle /\ LimiterIdle /\ RetryIdle /\ TcIdle /\ CallIdle

SpecOwner == InitOwner /\ [][OwnerNext]_vars

InitRun == OwnerIdle /\ RunInit /\ CacheIdle /\ LimiterIdle /\ RetryIdle /\ TcIdle /\ CallIdle

SpecRun == InitRun /\ [][RunNext]_vars

InitCache == OwnerIdle /\ RunIdle /\ CacheIdle /\ LimiterIdle /\ RetryIdle /\ TcIdle /\ CallIdle

SpecCache == InitCache /\ [][CacheNext]_vars

InitCached == OwnerIdle /\ RunIdle /\ CachedInit /\ LimiterIdle /\ RetryIdle /\ TcIdle /\ CallIdle

SpecCached == InitCached /\ [][CachedNext]_vars

SpecCachedCorrupt == InitCached /\ [][CachedCorruptNext]_vars

SpecCachedCancel == InitCached /\ [][CachedCancelNext]_vars

SpecCachedRewrap == InitCached /\ [][CachedRewrapNext]_vars

InitLimiter == OwnerIdle /\ RunIdle /\ CacheIdle /\ LimiterInit /\ RetryIdle /\ TcIdle /\ CallIdle

SpecLimiter == InitLimiter /\ [][LimiterNext]_vars

SpecLimiterCancel == InitLimiter /\ [][LimiterCancelNext]_vars /\ LimiterFairness

InitRetry == OwnerIdle /\ RunIdle /\ CacheIdle /\ LimiterIdle /\ RetryInit /\ TcIdle /\ CallIdle

SpecRetry == InitRetry /\ [][RetryNext]_vars

InitTruecaller == OwnerIdle /\ RunIdle /\ CacheIdle /\ LimiterIdle /\ RetryIdle /\ TcInit /\ CallIdle

SpecTruecaller == InitTruecaller /\ [][TcNext]_vars

InitScore == OwnerIdle /\ RunIdle /\ CacheIdle /\ LimiterIdle /\ RetryIdle /\ TcIdle /\ ScoreInit

SpecScore == InitScore /\ [][ScoreRisk]_vars

InitClassify == OwnerIdle /\ RunIdle /\ CacheIdle /\ LimiterIdle /\ RetryIdle /\ TcIdle /\ ClassifyInit

SpecClassify == InitClassify /\ [][Classify]_vars

InitOverrides == OwnerIdle /\ RunIdle /\ CacheIdle /\ LimiterIdle /\ RetryIdle /\ TcIdle /\ OverridesInit

SpecOverrides == InitOverrides /\ [][ApplyOverrides]_vars

InitConfidence == OwnerIdle /\ RunIdle /\ CacheIdle /\ LimiterIdle /\ RetryIdle /\ TcIdle /\ ConfidenceInit

SpecConfidence == InitConfidence /\ [][ScoreOwnerConfidence]_vars

InitDataset == OwnerIdle /\ RunIdle /\ CacheIdle /\ LimiterIdle /\ RetryIdle /\ TcIdle /\ DatasetInit

SpecDataset == InitDataset /\ [][CheckScamList]_vars

InitLookup == OwnerIdle /\ RunIdle /\ CacheIdle /\ LimiterIdle /\ RetryIdle /\ TcIdle /\ LookupInit

SpecLookup == InitLookup /\ [][Lookup]_vars

InitBackoff == OwnerIdle /\ RunIdle /\ CacheIdle /\ LimiterIdle /\ RetryIdle /\ TcIdle /\ BackoffInit

SpecBackoff == InitBackoff /\ [][ComputeBackoff]_vars

InitSearch == OwnerIdle /\ RunIdle /\ CacheIdle /\ LimiterIdle /\ RetryIdle /\ TcIdle /\ SearchInit

SpecSearch == InitSearch /\ [][SearchNext]_vars

InitDomain == OwnerIdle /\ RunIdle /\ CacheIdle /\ LimiterIdle /\ RetryIdle /\ TcIdle /\ DomainInit

SpecDomain == InitDomain /\ [][InferDomainSignals]_vars

InitAssociations == OwnerIdle /\ RunIdle /\ CacheIdle /\ LimiterIdle /\ RetryIdle /\ TcIdle /\ AssociationsInit

SpecAssociations == InitAssociations /\ [][ExtractOwnerSignals]_vars

(***************************************************************************)
(* Claims about OwnerIntelEngine.build                                     *)
(***************************************************************************)
ConsentGranted ==
    allow_pii /\ legal_basis # "None" /\ LegalBasisGet(legal_basis) = "True"

WasInvoked(k) == \E n \in 1..Len(invoked) : invoked[n] = k

AuditResultFor(outcome) ==
    CASE outcome = "pii_returned" -> "pii_returned"
      [] outcome = "none" -> "none"
      [] OTHER -> "error"

\* The audit records the invocations made so far call for: one per awaited
\* lookup_owner of a PII-capable adapter under a non-null legal basis.
ExpectedAudit ==
    LET calls == [ n \in 1..Len(outcomes) |->
                     [a |-> adapters[invoked[n]], outcome |-> outcomes[n]] ]
        owed == SelectSeq(calls, LAMBDA c : c.a.pii_capable /\ legal_basis # "None")
    IN  [ n \in 1..Len(owed) |->
            [adapter |-> owed[n].a.name, result |-> AuditResultFor(owed[n].outcome)] ]

\* C2: when build has ended (by return or by an exception of an adapter), its
\* caller holds exactly one OwnerAuditRecord for every invocation of a
\* PII-capable adapter made under a non-null legal basis, with result
\* pii_returned, none or error according to the outcome.
C2_OneAuditRecordPerInvocation ==
    build_pc \in { "returned", "raised" } => build_out.audit = ExpectedAudit

\* C3: the result's pii_allowed is true exactly when allow_pii, a legal basis
\* with consent_obtained True and a returned PII payload come together; pii is
\* non-null only when pii_allowed; without consent no PII is in the result and
\* the ownership type is the one the associations and the voip flag give.
C3_PiiOnlyUnderConsent ==
    build_pc = "returned" =>
        LET returnedPii == \E n \in 1..Len(outcomes) : outcomes[n] = "pii_returned"
        IN  /\ build_out.pii_allowed <=> (ConsentGranted /\ returnedPii)
            /\ build_out.pii # NoPII => build_out.pii_allowed
            /\ ~ConsentGranted =>
                 /\ build_out.pii = NoPII
                 /\ build_out.ownership_type
                      = classify(build_out.associations, voip_flag, NoPII)

\* C3 witness: a build under consent returned PII, and its ownership type is
\* the payload's category.
C3_Witness ==
    /\ build_pc = "returned"
    /\ build_out.pii_allowed
    /\ build_out.pii # NoPII
    /\ build_out.ownership_type = "landline"

(***************************************************************************)
(* Claims about _run_adapters                                              *)
(***************************************************************************)
RECURSIVE Count(_, _)
Count(s, x) ==
    IF s = << >> THEN 0 ELSE (IF Head(s) = x THEN 1 ELSE 0) + Count(Tail(s), x)

RECURSIVE CountInDone(_, _)
CountInDone(k, x) ==
    IF k = 0 THEN 0
    ELSE CountInDone(k - 1, x)
         + (IF tasks[k].state = "done" THEN Count(tasks[k].results, x) ELSE 0)

RunEvidenceItems ==
    { [source |-> n, title |-> t] : n \in RunAdapterNames, t \in { "t1", "t2" } }

\* C4: a run that returns has waited for every adapter (none is running, none
\* was aborted), has an errors entry with a message under the name of every
\* adapter that failed, and its evidence holds every item of every adapter
\* that succeeded.
C4_PartialFailureIsolation ==
    run_pc = "returned" =>
        /\ \A k \in 1..Len(run_adapters) : tasks[k].state \in { "done", "failed" }
        /\ \A k \in 1..Len(run_adapters) :
             tasks[k].state = "failed" =>
                /\ run_adapters[k] \in DOMAIN run_out.errors
                /\ run_out.errors[run_adapters[k]]
                     \in { e \o ": failed" : e \in CheckExceptions }
        /\ \A x \in RunEvidenceItems :
             Count(run_out.evidence, x) = CountInDone(Len(run_adapters), x)

\* C4 witness: a run returned with one adapter failed and another one's
\* results in the evidence.
C4_Witness ==
    /\ run_pc = "returned"
    /\ \E k \in 1..Len(run_adapters) : tasks[k].state = "failed"
    /\ \E k \in 1..Len(run_adapters) : tasks[k].state = "done" /\ tasks[k].results # << >>
    /\ run_out.evidence # << >>

\* C5: once a run has been cancelled no adapter task is still running: every
\* outstanding task was cancelled with it.
C5_CancelReachesEveryTask ==
    run_pc = "cancelled" => \A k \in 1..Len(run_adapters) : tasks[k].state # "running"

(***************************************************************************)
(* Claims about SQLiteTTLCache                                             *)
(***************************************************************************)
\* The instant a row expires, in ticks of the clock.
ExpiryTicks(row) == row.expires_at * TicksPerSecond

\* C6: a get never returns the value of a row whose expiry instant is at or
\* before the time of the call, and a get that finds such a row leaves the
\* table without it.
C6_GetNeverReturnsExpired ==
    last_op.op = "get" =>
        /\ last_op.hit => ExpiryTicks(last_op.found) > last_op.at
        /\ (last_op.found # NoRow /\ ExpiryTicks(last_op.found) <= last_op.at) =>
              /\ ~last_op.hit
              /\ store[last_op.key] = NoRow
              /\ StoreAfterDeleteExpired(store, last_op.at)[last_op.key] = store[last_op.key]

\* C6 witness: a get found an expired row, returned None and removed the row.
C6_Witness ==
    /\ last_op.op = "get"
    /\ last_op.found # NoRow
    /\ ExpiryTicks(last_op.found) <= last_op.at
    /\ ~last_op.hit
    /\ store[last_op.key] = NoRow

\* C7 as claimed: with s and t the clock readings of the last writing set of
\* the key and of a later get, the get returns the value when t < s + ttl and
\* None when t >= s + ttl.
C7_TtlOnTheExactClock ==
    (last_op.op = "get" /\ last_set[last_op.key] # NoSet) =>
        LET written == last_set[last_op.key]
            live == last_op.at < written.at + written.ttl * TicksPerSecond
        IN  /\ last_op.hit <=> live
            /\ last_op.hit => last_op.returned = written.value

\* C7 amended: the same with both clock readings cut to whole seconds: the
\* get returns the value when floor(t) < floor(s) + ttl and None otherwise.
C7_TtlOnWholeSeconds ==
    (last_op.op = "get" /\ last_set[last_op.key] # NoSet) =>
        LET written == last_set[last_op.key]
            live == int_time(last_op.at) < int_time(written.at) + written.ttl
        IN  /\ last_op.hit <=> live
            /\ last_op.hit => last_op.returned = written.value

\* C7 witness: a value set in the middle of a second is returned by a later
\* get, and another such value is gone at the start of second floor(s) + ttl.
C7_Witness ==
    /\ last_op.op = "get"
    /\ last_set[last_op.key] # NoSet
    /\ last_set[last_op.key].at % TicksPerSecond # 0
    /\ last_op.at > last_set[last_op.key].at
    /\ last_op.hit
    /\ last_op.returned = last_set[last_op.key].value

(***************************************************************************)
(* Claims about CachedReputationAdapter.check                              *)
(***************************************************************************)
\* A check that completed after a miss has left a row that is still live.
LiveEntryOfCompletedCheck(key) ==
    \E q \in 1..MaxChecks :
        /\ chk[q].pc = "done"
        /\ chk[q].key = key
        /\ chk[q].wrote # NoRow
        /\ wall_clock < ExpiryTicks(chk[q].wrote)

\* C8: with ttl > 0, a check that starts while the row of a completed check of
\* the same name, e164 and limit has not expired returns without a call of the
\* wrapped adapter; the wrapped adapter is called only when get gave no live
\* row; and a miss that succeeds writes its results under the key with expiry
\* now + ttl.
C8_CacheAside ==
    [][ \A p \in 1..MaxChecks :
          /\ (chk[p].pc = "idle" /\ chk'[p].pc # "idle") =>
                /\ (cache_ttl > 0 /\ LiveEntryOfCompletedCheck(chk'[p].key)) =>
                      /\ chk'[p].pc = "done"
                      /\ chk'[p].path = "hit"
                      /\ wrapped_calls' = wrapped_calls
                /\ wrapped_calls' # wrapped_calls =>
                      /\ wrapped_calls' = wrapped_calls + 1
                      /\ chk'[p].saw = "none"
          /\ (chk[p].pc = "set" /\ chk'[p].pc = "done" /\ cache_ttl > 0) =>
                /\ chk'[p].returned = chk[p].results
                /\ store'[chk[p].key] =
                      [value_json |-> json_dumps(ResultsDoc(chk[p].results)),
                       expires_at |-> int_time(wall_clock) + cache_ttl] ]_vars

\* C8 witness: one check missed, called the wrapped adapter once and wrote;
\* a later check of the same key was served from the row.
C8_Witness ==
    \E p, q \in 1..MaxChecks :
        /\ p # q
        /\ chk[q].pc = "done" /\ chk[q].path = "miss" /\ chk[q].wrote # NoRow
        /\ chk[p].pc = "done" /\ chk[p].path = "hit"
        /\ chk[p].key = chk[q].key
        /\ chk[p].returned # << >>
        /\ wrapped_calls = 1

\* C9: no check ends in a deserialization error, and a check that found a
\* payload that is no list of objects went on as a miss and returned the
\* wrapped adapter's results.
C9_MalformedPayloadIsAMiss ==
    \A p \in 1..MaxChecks :
        /\ chk[p].exc # "JSONDecodeError"
        /\ (chk[p].pc = "done" /\ chk[p].saw \in { "not_list", "non_object_items" }) =>
              /\ chk[p].path = "miss"
              /\ chk[p].returned = chk[p].results

(***************************************************************************)
(* Claims about PerHostRateLimiter                                         *)
(***************************************************************************)
\* C10: with rate > 0, any two wait calls on one host that have completed
\* did so at least 1/rate apart on the monotonic clock.
C10_CompletionsSpaced ==
    min_interval > 0 =>
        \A p, q \in Waiters :
            (p # q /\ lim[p].pc = "done" /\ lim[q].pc = "done" /\ lim[p].host = lim[q].host
               /\ lim[p].done_at <= lim[q].done_at)
            => lim[q].done_at - lim[p].done_at >= min_interval

\* C11: the limiter's state is partitioned per host.  A step of a wait(h)
\* call changes the lock and the next-allowed time of h only; the call waits
\* for a lock only when h's own lock is held by another wait(h), and sleeps
\* only until h's own next-allowed time; with rate <= 0 (interval 0) the call
\* is done at once and no limiter state changes.
C11_PerHostPartition ==
    [][ \A p \in Waiters :
          lim'[p] # lim[p] =>
            LET h == lim'[p].host IN
              /\ \A g \in Hosts \ { h } :
                    /\ next_allowed'[g] = next_allowed[g]
                    /\ lock_holder'[g] = lock_holder[g]
                    /\ lock_queue'[g] = lock_queue[g]
              /\ lim'[p].pc = "queued" =>
                    /\ lock_holder[h] \in Waiters \ { p }
                    /\ lim[lock_holder[h]].host = h
              /\ (lim'[p].pc = "sleeping" /\ lim[p].pc # "sleeping") =>
                    /\ next_allowed[h] > mono_clock
                    /\ lim'[p].wake = next_allowed[h]
              /\ min_interval <= 0 =>
                    /\ lim'[p].pc = "done"
                    /\ lim'[p].done_at = mono_clock
                    /\ UNCHANGED << lock_holder, lock_queue, next_allowed >>
      ]_vars

\* A wait(hostB) called after a wait(hostA) that still sleeps inside hostA's
\* section has completed.
C11_Witness ==
    \E p, q \in Waiters :
        /\ p < q
        /\ lim[p].pc = "sleeping" /\ lim[p].host = "hostA"
        /\ lim[q].pc = "done" /\ lim[q].host = "hostB"
        /\ lim[q].done_at < lim[p].wake

(***************************************************************************)
(* Claims about request_with_retries                                       *)
(***************************************************************************)
\* The statuses the transport is to retry.
RetriedStatuses == { 429, 500, 502, 503, 504 }

LastOutcomeRetryable ==
    \/ req_hist.last_outcome = "transport"
    \/ req_hist.last_outcome = "status" /\ resp.status \in RetriedStatuses

\* At most max_retries + 1 requests; a request is in flight only when all
\* earlier attempts have ended and their sleeps have elapsed; a further
\* request follows a retryable outcome only.
AttemptsSequential ==
    /\ req_hist'.requests <= Max2(req_cfg.max_retries + 1, 0)
    /\ req_hist'.requests \in { req_hist'.sleeps, req_hist'.sleeps + 1 }
    /\ req_pc' = "requesting" => /\ req_hist'.requests = attempt' + 1
                                 /\ req_hist'.sleeps = attempt'
    /\ (req_hist'.requests > req_hist.requests /\ req_hist.requests > 0)
          => LastOutcomeRetryable

\* Every request issued so far was preceded by its own limiter wait for the
\* URL's host.
EachRequestAfterWait ==
    /\ req_hist'.waits = req_hist'.requests
    /\ req_hist'.requests > 0 => req_hist'.wait_host = host_for_url(req_cfg.url)

\* C12 as stated: at most maxRetries + 1 requests, strictly one after
\* another, a further attempt only after a retryable outcome, and every
\* request preceded by a rate-limiter wait for the URL's host.
C12_EveryRequestAfterLimiterWait ==
    [][ AttemptsSequential /\ EachRequestAfterWait ]_vars

\* C12, amended: the same, with the limiter wait made before every request
\* when a rate limiter was passed and never when rate_limiter is None.
C12_SequentialAttemptsLimiterIfPassed ==
    [][ /\ AttemptsSequential
        /\ req_cfg.limiter => EachRequestAfterWait
        /\ ~req_cfg.limiter => req_hist'.waits = 0 ]_vars

\* A call with a rate limiter has used all its attempts, more than one.
C12_Witness ==
    /\ req_cfg.limiter
    /\ req_cfg.max_retries >= 1
    /\ req_hist.requests = req_cfg.max_retries + 1
    /\ req_hist.waits = req_hist.requests
    /\ req_pc \in { "returned", "raised" }

\* C13: a call all of whose attempts ended in a retryable outcome ends after
\* exactly max_retries + 1 requests with an error, the transport error after
\* a transport failure and an HTTP status error after a retried status; no
\* response with a retried status is returned, and nothing is drained or
\* slept for after the last attempt.
C13_ExhaustedRetriesFail ==
    /\ (req_pc \in { "returned", "raised" } /\ req_hist.requests > 0
          /\ req_hist.only_retryable /\ LastOutcomeRetryable) =>
            /\ req_hist.requests = req_cfg.max_retries + 1
            /\ req_hist.sleeps = req_cfg.max_retries
            /\ req_pc = "raised"
            /\ req_out.kind = IF req_hist.last_outcome = "transport"
                              THEN "TransportError" ELSE "HTTPStatusError"
    /\ req_out.kind = "response" => req_out.status \notin RetriedStatuses
    /\ req_pc \in { "draining", "sleeping" } => attempt < req_cfg.max_retries

C13_Witness ==
    /\ req_pc = "raised"
    /\ req_cfg.max_retries >= 1
    /\ req_hist.requests = req_cfg.max_retries + 1
    /\ req_hist.only_retryable
    /\ req_out = [kind |-> "HTTPStatusError", status |-> 503]

C15_DelayAtLeastBackoff ==
    (req_pc \in { "draining", "sleeping" } /\ req_hist.last_outcome = "status") =>
        /\ sleep_for >= 0
        /\ \E j \in Jitters :
             LET backoff == compute_backoff(attempt, BackoffBase, req_cfg.cap, j) IN
               sleep_for = IF resp.retry_after # "None" /\ ~float_raises(resp.retry_after)
                           THEN Max2(float_of(resp.retry_after), backoff)
                           ELSE backoff

\* C16: a cancellation delivered at a suspension point ends the call there
\* with CancelledError: no request is issued after it, and it is not recorded
\* as a transport failure.
C16_CancellationAborts ==
    req_hist.cancelled_in # "" =>
        /\ req_pc = "cancelled"
        /\ req_out.kind = "CancelledError"
        /\ req_hist.requests = req_hist.requests_at_cancel
        /\ last_exc # "CancelledError"
        /\ req_hist.last_outcome = "transport" => last_exc = "TransportError"

\* The call was cancelled while draining the body of a retried response.
C16_Witness ==
    /\ req_hist.cancelled_in = "draining"
    /\ req_pc = "cancelled"

(***************************************************************************)
(* Claims about cancellation                                               *)
(***************************************************************************)
\* C17: a check that was cancelled has written no row for its key, wherever
\* the cancellation arrived.
C17_CancelledCheckWritesNothing ==
    \A p \in 1..MaxChecks : chk[p].pc = "cancelled" => chk[p].wrote = NoRow

HasOutcome(o) == \E n \in 1..Len(outcomes) : outcomes[n] = o

\* C18: when build is cancelled during a lookup_owner, the cancellation
\* leaves build, the cancelled adapter is the last one invoked, and the audit
\* list holds no record for the cancelled invocation: only the records of the
\* invocations before it.
C18_CancelledBuildStops ==
    HasOutcome("cancelled") =>
        /\ build_pc = "cancelled"
        /\ build_out = RaisedOut("CancelledError")
        /\ outcomes[Len(outcomes)] = "cancelled"
        /\ Len(invoked) = Len(outcomes)
        /\ invoked[Len(invoked)] = build_i
        /\ Len(audit) = Cardinality({ n \in 1..(Len(outcomes) - 1) :
                                        Audited(adapters[invoked[n]], legal_basis) })

\* A build under consent was cancelled during the lookup of its first,
\* PII-capable adapter, with another adapter still to come.
C18_Witness ==
    /\ build_pc = "cancelled"
    /\ ConsentGranted
    /\ build_i = 1
    /\ Len(adapters) = 2
    /\ adapters[1].pii_capable
    /\ audit = << >>

\* C19: a consent denial (PermissionError) of one adapter ends that adapter's
\* call only: build does not end with the exception; when it returns, every
\* adapter the gate admits was invoked, the result is an OwnerIntelResult and
\* the audit list handed back holds an error record for the denied adapter
\* when it is PII-capable and a legal basis was present.
C19_DenialEndsThatCallOnly ==
    HasOutcome("denied") =>
        /\ build_pc # "raised"
        /\ build_pc = "returned" =>
             /\ build_out.kind = "return"
             /\ \A k \in 1..Len(adapters) :
                   ~SkipsAdapter(adapters[k], allow_pii, legal_basis) => WasInvoked(k)
             /\ \A n \in 1..Len(outcomes) :
                   (outcomes[n] = "denied" /\ Audited(adapters[invoked[n]], legal_basis)) =>
                      \E r \in 1..Len(build_out.audit) :
                          build_out.audit[r] = AuditRecord(adapters[invoked[n]], "error")

(***************************************************************************)
(* Claims about TruecallerAdapter.lookup_owner                             *)
(***************************************************************************)
\* C20: a direct call with no legal basis, or with consent_obtained anything
\* but True, ends with PermissionError and no result, whatever the number,
\* caller and limit; with consent_obtained True on an enabled adapter holding
\* an API key the call returns a result.
C20_DirectCallNeedsConsent ==
    tc_out # NoTcOut =>
        /\ (tc_in.legal_basis = "None" \/ LegalBasisGet(tc_in.legal_basis) # "True") =>
              tc_out = [kind |-> "PermissionError", associations |-> << >>, pii |-> NoPII]
        /\ (tc_in.legal_basis # "None" /\ LegalBasisGet(tc_in.legal_basis) = "True"
              /\ tc_in.enabled /\ tc_in.api_key = "key") =>
              tc_out.kind = "result"

\* An enabled adapter with a key was called with consent_obtained False and
\* refused.
C20_Witness ==
    /\ tc_in.enabled
    /\ tc_in.api_key = "key"
    /\ tc_in.legal_basis = "consent_False"
    /\ tc_out.kind = "PermissionError"

(***************************************************************************)
(* Claims about the associations of the OwnerIntelResult                   *)
(***************************************************************************)
\* C21: no association of the OwnerIntelResult build returns has a snippet
\* with an email address in it, be it made from evidence or returned by an
\* owner adapter.
C21_SnippetsRedacted ==
    build_pc = "returned" =>
        \A k \in 1..Len(build_out.associations) :
            ~ContainsEmail(build_out.associations[k].snippet)

(***************************************************************************)
(* Claims about score_risk                                                 *)
(***************************************************************************)
ScoreReturned == call_args.fn = "score_risk" /\ call_result # NoResult

\* The weight the claim gives a signal: the supplied map's where it names the
\* key, the default otherwise.
ClaimedWeight(name) ==
    IF name \in DOMAIN call_args.weights THEN call_args.weights[name]
    ELSE DefaultWeights[name]

\* Sum of weight x (1 if true else 0) over the four boolean signals.
ClaimedBoolSum ==
    LET c(name) == IF call_args[name] THEN ClaimedWeight(name) * DaysPerYear ELSE 0
    IN  c("found_in_scam_db") + c("voip") + c("found_in_classifieds") + c("business_listing")

\* weight x min(ageDays / 365, 10)
ClaimedAgeTerm ==
    ClaimedWeight(AgeWeightName) * Min2(call_args.age.days, MaxAgeYears * DaysPerYear)

\* round(clamp(total, 0, 100)), is an integer in [0,100], has one breakdown
\* entry per boolean signal with contribution weight x 1 or 0, and is 60 for
\* default weights with only found_in_scam_db true.
ScoreIsRoundedClampedSum(total) ==
    /\ call_result.score = round_half_even(Max2(0, Min2(100 * ScoreUnit, total)), ScoreUnit)
    /\ call_result.score \in 0..100
    /\ \A k \in 1..Len(BoolSignalNames) :
          /\ call_result.breakdown[k].name = BoolSignalNames[k]
          /\ call_result.breakdown[k].weight = ClaimedWeight(BoolSignalNames[k])
          /\ call_result.breakdown[k].contribution =
                IF call_args[BoolSignalNames[k]]
                THEN ClaimedWeight(BoolSignalNames[k]) * DaysPerYear ELSE 0
    /\ (call_args.weights = << >> /\ call_args.found_in_scam_db /\ ~call_args.voip
          /\ ~call_args.found_in_classifieds /\ ~call_args.business_listing
          /\ ~call_args.age.given) => call_result.score = 60

\* C22 as stated: defaults overridden key by key, booleans contribute weight
\* x 1 or 0, every age that is given contributes weight x min(ageDays/365, 10),
\* and the score is round(clamp(sum, 0, 100)).
C22_ScoreFormulaEveryAge ==
    ScoreReturned =>
        ScoreIsRoundedClampedSum(ClaimedBoolSum
                                 + IF call_args.age.given THEN ClaimedAgeTerm ELSE 0)

\* C22, amended: the same, with the age contributing only when it is given
\* and not negative; a negative age contributes nothing.
C22_ScoreFormulaNonNegativeAge ==
    ScoreReturned =>
        ScoreIsRoundedClampedSum(ClaimedBoolSum
                                 + IF call_args.age.given /\ call_args.age.days >= 0
                                   THEN ClaimedAgeTerm ELSE 0)

\* The weight of found_in_scam_db was overridden to 5.0 and the score is 5,
\* with an age of 100 days taking part in the sum.
C22_Witness ==
    /\ ScoreReturned
    /\ call_args.weights = [ k \in { "found_in_scam_db" } |-> 10 ]
    /\ call_args.found_in_scam_db /\ call_args.voip
    /\ call_args.age = [given |-> TRUE, days |-> 100]
    /\ call_result.score = 19

\* C23: with default weights, turning one of found_in_scam_db, voip,
\* found_in_classifieds from false to true never lowers the score, and turning
\* business_listing from false to true never raises it, whatever the other
\* signals and the age.
C23_ScoreMonotone ==
    (ScoreReturned /\ call_args.weights = << >>) =>
        /\ \A name \in { "found_in_scam_db", "voip", "found_in_classifieds" } :
              ~call_args[name] =>
                 score_risk([call_args EXCEPT ![name] = TRUE]).score >= call_result.score
        /\ ~call_args.business_listing =>
              score_risk([call_args EXCEPT !.business_listing = TRUE]).score
                 <= call_result.score

\* With default weights a business listing lowered a score and voip would
\* raise it.
C23_Witness ==
    /\ ScoreReturned
    /\ call_args.weights = << >>
    /\ ~call_args.business_listing /\ ~call_args.voip
    /\ score_risk([call_args EXCEPT !.business_listing = TRUE]).score < call_result.score
    /\ score_risk([call_args EXCEPT !.voip = TRUE]).score > call_result.score

(***************************************************************************)
(* Claims about classify                                                   *)
(***************************************************************************)
ClassifyReturned == call_args.fn = "classify" /\ call_result # NoResult

HasLabel(l) ==
    \E k \in 1..Len(call_args.associations) : call_args.associations[k].label = l

\* C24: classify returns the category of the PII payload when one is passed;
\* else voip when voip_flag is true, whatever the associations; else business
\* when an association is labeled business_listing; else individual when one
\* is labeled classified_ad; else unknown.
C24_ClassifyPriority ==
    ClassifyReturned =>
        call_result.ownership_type =
            CASE call_args.pii # NoPII -> call_args.pii.owner_category
              [] call_args.pii = NoPII /\ call_args.voip_flag -> "voip"
              [] call_args.pii = NoPII /\ ~call_args.voip_flag /\ HasLabel("business_listing")
                   -> "business"
              [] call_args.pii = NoPII /\ ~call_args.voip_flag /\ ~HasLabel("business_listing")
                   /\ HasLabel("classified_ad") -> "individual"
              [] OTHER -> "unknown"

\* classify(voip_flag=True, associations=[business_listing, classified_ad],
\* pii=None) returned voip.
C24_Witness ==
    /\ ClassifyReturned
    /\ call_args.pii = NoPII
    /\ call_args.voip_flag
    /\ HasLabel("business_listing")
    /\ HasLabel("classified_ad")
    /\ call_result.ownership_type = "voip"

(***************************************************************************)
(* Claims about the signal overrides                                       *)
(***************************************************************************)
OverridesReturned == call_args.fn = "apply_signal_overrides" /\ call_result # NoResult

InOverrideSet(name) == call_args.e164 \in call_args.overrides[name]

\* C25: after apply_signal_overrides a signal is true exactly when it was
\* organically true (voip: the number type is voip) or the number is in the
\* signal's override set; and the generated evidence has exactly one entry,
\* with source signal_override, for every override that fired and none for
\* the others.
C25_OverridesForceSignals ==
    OverridesReturned =>
        /\ call_result.voip_signal <=> (call_args.number_type = "voip" \/ InOverrideSet("voip"))
        /\ \A name \in { "found_in_classifieds", "business_listing" } :
              call_result.merged[name] <=> (call_args.domain_signals[name] \/ InOverrideSet(name))
        /\ \A k \in 1..Len(call_result.evidence) :
              call_result.evidence[k].source = "signal_override"
        /\ \A name \in { "voip", "found_in_classifieds", "business_listing" } :
              Cardinality({ k \in 1..Len(call_result.evidence) :
                              call_result.evidence[k].title = SIGNAL_DISPLAY_NAMES[name] })
                 = IF InOverrideSet(name) THEN 1 ELSE 0

\* The business_listing override fired for a number with no organic signal,
\* while the classifieds override, set for the other number only, did not.
C25_Witness ==
    /\ OverridesReturned
    /\ call_args.number_type = "mobile"
    /\ ~call_args.domain_signals.business_listing
    /\ ~call_args.domain_signals.found_in_classifieds
    /\ InOverrideSet("business_listing")
    /\ call_args.overrides.found_in_classifieds = E164s \ { call_args.e164 }
    /\ call_result.merged.business_listing
    /\ ~call_result.merged.found_in_classifieds
    /\ Len(call_result.evidence) = 1

(***************************************************************************)
(* Claims about score_owner_confidence                                     *)
(***************************************************************************)
ConfidenceReturned == call_args.fn = "score_owner_confidence" /\ call_result # NoResult

EntriesOf(signal) ==
    { k \in 1..Len(call_result.breakdown) : call_result.breakdown[k].signal = signal }

\* The breakdown has exactly one entry for the signal, with this value,
\* weighted by the supplied weight or else the default one.
Scored(signal, value) ==
    LET weight == IF signal \in DOMAIN call_args.weights THEN call_args.weights[signal]
                  ELSE DefaultOwnerWeights[signal]
    IN  /\ Cardinality(EntriesOf(signal)) = 1
        /\ \A k \in EntriesOf(signal) :
              /\ call_result.breakdown[k].value = value
              /\ call_result.breakdown[k].contribution = weight * value

NotScored(signal) == EntriesOf(signal) = {}

ScoredIf(cond, signal, value) == IF cond THEN Scored(signal, value) ELSE NotScored(signal)

\* C26: the breakdown scores the one ownership-specific signal the ownership
\* type selects (voip: the voip flag; business: the business_listing count;
\* individual: the classified_ad count; unknown: none), evidence_any,
\* multiple_sources for two or more sources, scam_report and pii_confirmed
\* when present, counts capped at 3; the score is round(clamp(sum, 0, 100)),
\* lies in [0,100] and is the rounded sum when the sum lies in [0,100].
C26_OwnerConfidence ==
    ConfidenceReturned =>
        LET s == call_args.signals
            t == call_args.ownership_type
            total == SumContributions(call_result.breakdown)
        IN  /\ ScoredIf(t = "voip", "voip", IF s.voip THEN 1 ELSE 0)
            /\ ScoredIf(t = "business", "business_listing", Min2(s.business_listing_count, 3))
            /\ ScoredIf(t = "individual", "classified_ad", Min2(s.classified_ads_count, 3))
            /\ ScoredIf(s.evidence_count > 0, "evidence_any", 1)
            /\ ScoredIf(s.sources_count >= 2, "multiple_sources", 1)
            /\ ScoredIf(s.scam_report_count > 0, "scam_report", Min2(s.scam_report_count, 3))
            /\ ScoredIf(s.pii_present, "pii_confirmed", 1)
            /\ call_result.score = round_half_even(Max2(0, Min2(200, total)), 2)
            /\ call_result.score \in 0..100
            /\ (total >= 0 /\ total <= 200) => call_result.score = round_half_even(total, 2)

\* A business number with four listings and four scam reports was scored with
\* both counts capped at 3.
C26_Witness ==
    /\ ConfidenceReturned
    /\ call_args.ownership_type = "business"
    /\ call_args.signals.business_listing_count = 4
    /\ call_args.signals.scam_report_count = 4
    /\ call_args.weights = [ k \in {} |-> 0 ]
    /\ \E k \in EntriesOf("business_listing") : call_result.breakdown[k].value = 3
    /\ \E k \in EntriesOf("scam_report") : call_result.breakdown[k].value = 3

(***************************************************************************)
(* C27: the dataset adapter                                                *)
(***************************************************************************)
DatasetReturned == call_args.fn = "check_scam_list" /\ call_result # NoResult

\* The positions of the dataset whose item is an entry with the queried e164.
MatchPositions ==
    { i \in 1..Len(call_args.dataset) :
        /\ call_args.dataset[i].kind = "object"
        /\ call_args.dataset[i].e164 = call_args.e164 }

\* The position in the dataset of the k-th match.
MatchAt(k) ==
    CHOOSE i \in MatchPositions : Cardinality({ j \in MatchPositions : j <= i }) = k

ClaimedUrl(obj) ==
    IF obj.reference_url # "" THEN obj.reference_url
    ELSE IF obj.source # "" THEN "scamdb://" \o obj.source ELSE "scamdb://unknown"

\* C27: for every dataset, e164 and limit >= 0, check raises nothing and
\* returns exactly the first min(limit, number of matches) entries whose e164
\* equals the queried one, in dataset order, each with source public_scam_db,
\* the entry's label as title and the entry's reference URL (scamdb://<source>
\* when it has none) as url; the list is empty when nothing matches.
C27_DatasetExactMatch ==
    (DatasetReturned /\ call_args.limit >= 0) =>
        /\ ~call_result.raised
        /\ Len(call_result.results) = Min2(call_args.limit, Cardinality(MatchPositions))
        /\ \A k \in 1..Len(call_result.results) :
              LET obj == call_args.dataset[MatchAt(k)]
              IN  /\ call_result.results[k].source = "public_scam_db"
                  /\ call_result.results[k].title = obj.label
                  /\ call_result.results[k].url = ClaimedUrl(obj)

\* Two entries match, the first without a reference URL, and limit=1 returned
\* the first one only.
C27_Witness ==
    /\ DatasetReturned
    /\ call_args.limit = 1
    /\ Cardinality(MatchPositions) = 2
    /\ call_args.dataset[MatchAt(1)].reference_url = ""
    /\ Len(call_result.results) = 1
    /\ call_result.results[1].url = "scamdb://ftc"

(***************************************************************************)
(* C28: found_in_scam_db, end to end                                       *)
(***************************************************************************)
LookupEnded == call_args.fn = "lookup_async" /\ call_result # NoResult

DatasetAdapterUsed == "public" \in Range(call_args.adapters)

DatasetHasMatch ==
    /\ call_args.scam_list.array
    /\ \E i \in 1..Len(call_args.scam_list.items) :
          /\ call_args.scam_list.items[i].kind = "object"
          /\ call_args.scam_list.items[i].e164 = call_args.e164

\* The dataset adapter fails: its file does not load, or its check raises.
DatasetAdapterFails == ~call_args.scam_list.array \/ call_args.cache = "not_json"

\* The signal is true exactly when the evidence of the report holds an item
\* of the dataset.
FoundIffEvidence ==
    (LookupEnded /\ ~call_result.raised) =>
        (call_result.found_in_scam_db
            <=> \E k \in 1..Len(call_result.evidence) :
                    call_result.evidence[k].source = "public_scam_db")

\* A match of the dataset adapter, direct or replayed, is in the evidence and
\* weighs 60 under the default weights.
MatchIsScored ==
    (LookupEnded /\ DatasetAdapterUsed /\ ~DatasetAdapterFails /\ DatasetHasMatch) =>
        /\ ~call_result.raised
        /\ \E k \in 1..Len(call_result.evidence) :
              /\ call_result.evidence[k].source = "public_scam_db"
              /\ call_result.evidence[k].title = call_args.scam_list.items[1].label
              /\ call_result.evidence[k].url = ClaimedUrl(call_args.scam_list.items[1])
        /\ call_result.found_in_scam_db
        /\ call_args.weights = << >> =>
              \E k \in 1..Len(call_result.score.breakdown) :
                  /\ call_result.score.breakdown[k].name = "found_in_scam_db"
                  /\ call_result.score.breakdown[k].contribution = 60 * ScoreUnit

\* What the other adapters contributed.
RemainingEvidence ==
    run_adapters_evidence(SelectSeq(built_adapters(call_args), LAMBDA n : n # "public"),
                          call_args)

ScoreOfRemainingEvidence ==
    score_risk([found_in_scam_db |-> FALSE, voip |-> call_args.voip,
                found_in_classifieds |-> infer_domain_signals(RemainingEvidence).found_in_classifieds,
                business_listing |-> infer_domain_signals(RemainingEvidence).business_listing,
                age |-> NoAge, weights |-> call_args.weights])

\* Without a match, the lookup reports found_in_scam_db false and the score of
\* the remaining evidence.
NoMatchIsNotScored ==
    (LookupEnded /\ DatasetAdapterUsed /\ ~DatasetAdapterFails /\ ~DatasetHasMatch) =>
        /\ ~call_result.raised
        /\ ~call_result.found_in_scam_db
        /\ call_result.score = ScoreOfRemainingEvidence

\* With a dataset adapter whose check raises, the same.
FailedCheckIsNotScored ==
    (LookupEnded /\ DatasetAdapterUsed /\ call_args.scam_list.array
        /\ call_args.cache = "not_json") =>
        /\ ~call_result.raised
        /\ "public" \in call_result.adapter_errors
        /\ ~call_result.found_in_scam_db
        /\ call_result.score = ScoreOfRemainingEvidence

\* C28: end to end, found_in_scam_db is true exactly when the merged evidence
\* holds an item with source public_scam_db; a matching entry of the dataset
\* adapter, direct or replayed from the cache, is in the evidence and the
\* default-weight breakdown has found_in_scam_db with contribution 60; when
\* the dataset adapter fails or has no match, found_in_scam_db is false and
\* the score is the one of the remaining evidence.
C28_FoundInScamDbEndToEnd ==
    /\ FoundIffEvidence
    /\ MatchIsScored
    /\ NoMatchIsNotScored
    /\ (LookupEnded /\ DatasetAdapterUsed /\ DatasetAdapterFails) =>
          /\ ~call_result.raised
          /\ ~call_result.found_in_scam_db
          /\ call_result.score = ScoreOfRemainingEvidence

(***************************************************************************)
(* C29: ttl <= 0                                                           *)
(***************************************************************************)
\* C29: a check of a CachedReputationAdapter with ttl <= 0 writes no entry to
\* the cache store, invokes the wrapped adapter and returns the wrapped
\* adapter's result.
C29_ZeroTtlPassThrough ==
    \A p \in 1..MaxChecks :
        (chk[p].pc = "done" /\ chk[p].ttl <= 0) =>
            /\ chk[p].wrote = NoRow
            /\ chk[p].path = "miss"
            /\ chk[p].returned = chk[p].results

(***************************************************************************)
(* C30: replay from the cache                                              *)
(***************************************************************************)
\* Check p returns a replay of the row under its key.
ReplayStep(p) == chk[p].pc = "idle" /\ chk'[p].pc = "done" /\ chk'[p].path = "hit"

BackoffReturned == call_args.fn = "compute_backoff" /\ call_result # NoResult

\* C31: for every attempt a >= 0, base >= 0 and cap >= 0 the delay is at most
\* 1.2 times the cap and at least 0.8 times min(cap, base * 2^a).
C31_BackoffBounded ==
    BackoffReturned =>
        /\ 10 * call_result.delay <= 12 * call_args.cap
        /\ 10 * call_result.delay
              >= 8 * Min2(call_args.cap, call_args.base * (2 ^ call_args.attempt))

\* The default base doubled past a cap of 0.8 s, with the largest factor: the
\* delay is 1.2 times the cap.
C31_Witness ==
    /\ BackoffReturned
    /\ call_args.base = BackoffBase
    /\ call_args.cap = 80
    /\ call_args.base * (2 ^ call_args.attempt) > call_args.cap
    /\ 10 * call_result.delay = 12 * call_args.cap

(***************************************************************************)
(* C32: the length of titles                                               *)
(***************************************************************************)
SearchReturned == call_args.fn \in { "ddg_search", "google_search" } /\ call_result # NoResult

\* C32: every result of search, of the instant-answer adapter and of the
\* authenticated adapter alike, has a title of at most 120 characters,
\* whatever the length of the title or text in the response.
C32_TitlesBounded ==
    SearchReturned =>
        \A k \in 1..Len(call_result.results) : call_result.results[k].title_len <= TitleLimit

\* The instant-answer adapter alone keeps the bound.
DuckDuckGoTitlesBounded ==
    (SearchReturned /\ call_args.fn = "ddg_search") =>
        \A k \in 1..Len(call_result.results) : call_result.results[k].title_len <= TitleLimit

(***************************************************************************)
(* C33: the authenticated adapter without its credentials                  *)
(***************************************************************************)
GoogleAskedWithoutCredentials ==
    /\ LookupEnded
    /\ "google" \in Range(call_args.adapters)
    /\ call_args.gcs_api_key \in { "None", "" } \/ call_args.gcs_cx \in { "None", "" }

\* The same lookup asked without the authenticated adapter.
WithoutGoogle ==
    [call_args EXCEPT !.adapters = SelectSeq(call_args.adapters, LAMBDA n : n # "google")]

\* C33: without an API key or without a search-engine id the authenticated
\* adapter fails when it is built, before any request: its check is never
\* called, it is in neither the evidence nor the errors, and the lookup ends
\* as the lookup of the remaining adapters does, with their report.
C33_ConfigErrorNotFatal ==
    GoogleAskedWithoutCredentials =>
        /\ call_result = lookup_async(WithoutGoogle)
        /\ ~call_result.raised =>
              /\ "google" \notin call_result.checked
              /\ "google" \notin call_result.adapter_errors
              /\ \A k \in 1..Len(call_result.evidence) :
                    call_result.evidence[k].source # "google"
              /\ call_result.checked = Range(WithoutGoogle.adapters)

\* A key but no search-engine id: the instant-answer adapter ran alone and its
\* evidence is in the report.
C33_Witness ==
    /\ GoogleAskedWithoutCredentials
    /\ call_args.gcs_api_key = "secret"
    /\ call_args.adapters = << "duckduckgo", "google" >>
    /\ ~call_result.raised
    /\ call_result.checked = { "duckduckgo" }
    /\ Len(call_result.evidence) = 1

(***************************************************************************)
(* C34: infer_domain_signals                                               *)
(***************************************************************************)
DomainReturned == call_args.fn = "infer_domain_signals" /\ call_result # NoResult

\* The URLs that hold a classifieds marker, and those that hold a business
\* marker, whatever the case of their letters.
UrlsOfClassifieds ==
    { "https://sfbay.craigslist.org/x", "HTTPS://SFBAY.CRAIGSLIST.ORG/X",
      "https://www.facebook.com/marketplace/item/1", "https://yelp.craigslist.org/x" }

UrlsOfBusinesses ==
    { "https://www.yelp.com/biz/x", "https://WWW.YELP.COM/biz/x",
      "https://yelp.craigslist.org/x", "scamdb://yelp.example" }

\* C34: found_in_classifieds is true exactly when some evidence URL holds,
\* case-insensitively, a classifieds marker, and business_listing exactly
\* when some evidence URL holds a business marker; each flag is decided
\* without the other and both are false for an empty evidence list.
C34_DomainSignals ==
    DomainReturned =>
        /\ call_result.signals.found_in_classifieds
              <=> \E k \in 1..Len(call_args.results) :
                      call_args.results[k].url \in UrlsOfClassifieds
        /\ call_result.signals.business_listing
              <=> \E k \in 1..Len(call_args.results) :
                      call_args.results[k].url \in UrlsOfBusinesses
        /\ call_args.results = << >> =>
              /\ ~call_result.signals.found_in_classifieds
              /\ ~call_result.signals.business_listing

\* A classifieds URL spelled in capitals and a URL of neither kind: the
\* classifieds flag alone is set.
C34_Witness ==
    /\ DomainReturned
    /\ Len(call_args.results) = 2
    /\ call_args.results[1].url = "HTTPS://SFBAY.CRAIGSLIST.ORG/X"
    /\ call_args.results[2].url = "https://www.facebook.com/profile"
    /\ call_result.signals.found_in_classifieds
    /\ ~call_result.signals.business_listing

(***************************************************************************)
(* C35: labels of associations and the counts made of them                 *)
(***************************************************************************)
AssociationsReturned == call_args.fn = "extract_owner_signals" /\ call_result # NoResult

\* The URLs with the scheme of the dataset, in either case.
UrlsOfScamdb == { "scamdb://sample", "SCAMDB://sample", "scamdb://yelp.example" }

ClaimedLabel(r) ==
    CASE r.source = "public_scam_db" \/ r.url \in UrlsOfScamdb -> "scam_report"
      [] r.source # "public_scam_db" /\ r.url \notin UrlsOfScamdb
         /\ r.url \in UrlsOfBusinesses -> "business_listing"
      [] r.source # "public_scam_db" /\ r.url \notin UrlsOfScamdb
         /\ r.url \notin UrlsOfBusinesses /\ r.url \in UrlsOfClassifieds -> "classified_ad"
      [] OTHER -> "mention"

ClaimedCount(label) ==
    Cardinality({ k \in 1..Len(call_args.evidence) :
                    ClaimedLabel(call_args.evidence[k]) = label })

\* C35: every evidence item gets one association, labelled scam_report for
\* the dataset's source or a scamdb:// URL, else business_listing for a
\* business marker, else classified_ad for a classifieds marker, else
\* mention, and keeping the item's source, url and timestamp; the three
\* counts are the numbers of items so labelled, first_seen is the earliest
\* and last_seen the latest timestamp.
C35_LabelsAndCounts ==
    AssociationsReturned =>
        LET ev == call_args.evidence
            assocs == call_result.associations
            signals == call_result.signals
        IN  /\ Len(assocs) = Len(ev)
            /\ \A k \in 1..Len(ev) :
                  /\ assocs[k].label = ClaimedLabel(ev[k])
                  /\ assocs[k].source = ev[k].source
                  /\ assocs[k].url = ev[k].url
                  /\ assocs[k].timestamp = ev[k].timestamp
            /\ signals.business_listing_count = ClaimedCount("business_listing")
            /\ signals.classified_ads_count = ClaimedCount("classified_ad")
            /\ signals.scam_report_count = ClaimedCount("scam_report")
            /\ ev # << >> =>
                  /\ signals.first_seen.iso /\ signals.last_seen.iso
                  /\ \A k \in 1..Len(ev) :
                        /\ signals.first_seen.instant <= ev[k].timestamp
                        /\ signals.last_seen.instant >= ev[k].timestamp
                  /\ \E k \in 1..Len(ev) : signals.first_seen.instant = ev[k].timestamp
                  /\ \E k \in 1..Len(ev) : signals.last_seen.instant = ev[k].timestamp

\* A URL with both markers, fetched last, counts as a business listing; a
\* scamdb:// URL found by a search adapter, fetched first, as a scam report.
C35_Witness ==
    /\ AssociationsReturned
    /\ Len(call_args.evidence) = 2
    /\ call_args.evidence[1].url = "https://yelp.craigslist.org/x"
    /\ call_args.evidence[1].source = "duckduckgo"
    /\ call_args.evidence[1].timestamp = 2
    /\ call_args.evidence[2].url = "scamdb://yelp.example"
    /\ call_args.evidence[2].source = "duckduckgo"
    /\ call_args.evidence[2].timestamp = 1
    /\ call_result.signals.business_listing_count = 1
    /\ call_result.signals.classified_ads_count = 0
    /\ call_result.signals.scam_report_count = 1
    /\ call_result.signals.first_seen = IsoText(1)
    /\ call_result.signals.last_seen = IsoText(2)

(***************************************************************************)
(* C36: the ownership types                                                *)
(***************************************************************************)
\* C36: whatever the input of classify, a PII payload of any declared owner
\* category included, the ownership type is one of business, individual,
\* voip, unknown.
C36_OwnershipTypeClosed ==
    ClassifyReturned => call_result.ownership_type \in OwnershipTypes

\* The same of the results of OwnerIntelEngine.build.
BuildOwnershipTypeClosed ==
    build_pc = "returned" => build_out.ownership_type \in OwnershipTypes

(***************************************************************************)
(* C37: PII that is exposed is audited                                     *)
(***************************************************************************)
\* The position, among the lookups made, of the one whose PII build kept: the
\* first that returned any.
SupplierPosition ==
    CHOOSE k \in 1..Len(outcomes) :
        /\ outcomes[k] = "pii_returned"
        /\ \A j \in 1..(k - 1) : outcomes[j] # "pii_returned"

\* C37: whenever build returns a result with pii_allowed true, the audit list
\* returned with it holds a record with result pii_returned that names the
\* adapter that supplied the PII, whatever the adapters are and return.
C37_PiiExposureAudited ==
    (build_pc = "returned" /\ build_out.pii_allowed) =>
        \E k \in 1..Len(build_out.audit) :
            /\ build_out.audit[k].result = "pii_returned"
            /\ build_out.audit[k].adapter = adapters[invoked[SupplierPosition]].name

(***************************************************************************)
(* C38, C39: what a run accounts for, and in which order                   *)
(***************************************************************************)
FailedTasks == { k \in 1..Len(run_adapters) : tasks[k].state = "failed" }

\* C38: in a run that returns every adapter is accounted for once, by its
\* results in the evidence or by an entry of its own in errors: errors has as
\* many entries as adapters failed, also when two adapters carry one name.
C38_EveryAdapterAccountedOnce ==
    run_pc = "returned" =>
        /\ \A k \in FailedTasks : run_adapters[k] \in DOMAIN run_out.errors
        /\ \A x \in RunEvidenceItems :
             Count(run_out.evidence, x) = CountInDone(Len(run_adapters), x)
        /\ Cardinality(DOMAIN run_out.errors) = Cardinality(FailedTasks)

RECURSIVE ResultsInAdapterOrder(_)
\* The results of the adapters 1..k that succeeded, in the order of the list.
ResultsInAdapterOrder(k) ==
    IF k = 0 THEN << >>
    ELSE ResultsInAdapterOrder(k - 1)
         \o (IF tasks[k].state = "done" THEN tasks[k].results ELSE << >>)

\* The last adapter of the list that failed under a name.
LastFailed(name) ==
    CHOOSE k \in FailedTasks :
        /\ run_adapters[k] = name
        /\ \A j \in FailedTasks : run_adapters[j] = name => j <= k

\* C39: the evidence returned is the concatenation of the results of the
\* adapters that succeeded, in the order the adapters were passed in, and the
\* errors map is decided by what each adapter raised: neither depends on the
\* order in which the adapters completed.
C39_EvidenceInAdapterOrder ==
    run_pc = "returned" =>
        /\ run_out.evidence = ResultsInAdapterOrder(Len(run_adapters))
        /\ DOMAIN run_out.errors = { run_adapters[k] : k \in FailedTasks }
        /\ \A name \in DOMAIN run_out.errors :
              run_out.errors[name] = tasks[LastFailed(name)].exc \o ": failed"

\* The second adapter completed before the first, and the evidence still
\* starts with the results of the first.
C39_Witness ==
    /\ run_pc = "returned"
    /\ Len(run_adapters) >= 2
    /\ run_adapters[1] # run_adapters[2]
    /\ tasks[1].state = "done" /\ tasks[1].results # << >>
    /\ tasks[2].state = "done" /\ tasks[2].results # << >>
    /\ tasks[2].order < tasks[1].order
    /\ run_out.evidence[1] = tasks[1].results[1]

(***************************************************************************)
(* C40: the exclusive section of the limiter                               *)
(***************************************************************************)
\* A wait cancelled in its sleep gives up the lock and leaves the next
\* allowed times as they were.
CancelledSleepReleases ==
    [][\A p \in Waiters :
          (lim[p].pc = "sleeping" /\ lim'[p].pc = "cancelled") =>
              /\ lock_holder'[lim[p].host] # p
              /\ next_allowed' = next_allowed]_vars

\* A wait that has been called returns, unless it is cancelled.
EveryWaitReturns ==
    \A p \in Waiters :
        (lim[p].pc \in { "queued", "sleeping" }) ~> (lim[p].pc \in { "done", "cancelled" })

\* C40: the section never deadlocks: a wait(host) cancelled while sleeping
\* releases the lock of the host and leaves its next allowed time unchanged,
\* and under fair scheduling every wait(host) that is not cancelled returns,
\* for any number of waiters on the same or on different hosts.
C40_NoDeadlock == CancelledSleepReleases /\ EveryWaitReturns

\* A waiter queued behind a sleeper that was cancelled has returned.
C40_Witness ==
    \E p, q \in Waiters :
        /\ lim[p].pc = "cancelled" /\ lim[p].wake > 0
        /\ lim[q].pc = "done" /\ lim[q].host = lim[p].host
        /\ q > p
        /\ lim[q].done_at >= lim[p].wake
====
